---- MODULE Spec2Model ----
(***************************************************************************)
(* VPMBench: plugin compatibility check, Plugin.run with its output        *)
(* validation, and the parallel invocation of plugins (invoke_methods).    *)
(*                                                                         *)
(* A variant table is a sequence of rows; the position of a row is its     *)
(* pandas index label (RangeIndex), its UID the value of the UID column.   *)
(* A score table is a record with its column names and its rows.           *)
(***************************************************************************)
EXTENDS Naturals, Integers, Sequences, FiniteSets, TLC

VARIABLES
    plugins,               \* the list of Plugin objects handed to the call
    variant_data,          \* the variant information table
    cpu_count,             \* argument cpu_count of invoke_methods
    ncpus,                 \* what mp.cpu_count() returns on this machine
    with_flexible_plugins, \* argument with_flexible_plugins of load_plugin(s)
    compat,                \* outcome of a direct is_compatible_with_data call
    tpc,                   \* per plugin: position of its Plugin.run call
    traw,                  \* per plugin: what EntryPoint.run returned
    tres,                  \* per plugin: what Plugin.run returned or raised
    pool,                  \* state of the mp.Pool of invoke_methods
    pc,                    \* position of invoke_methods itself
    next_job,              \* index of the job the "for job in jobs" loop waits for
    plugin_results,        \* the list plugin_results of invoke_methods
    ret,                   \* what invoke_methods returned or raised
    how,                   \* the merge policy a caller asks of from_results
    annotated_variants,    \* what AnnotatedVariantData.from_results returned or raised
    scores,                \* what the property AnnotatedVariantData.scores gave
    evaluation_data,       \* the table of the EvaluationData (variants and CLASS)
    how_to_handle_with_missing_values, \* argument of merge_annotaded_variant_and_evaluation_data
    merge_ret,             \* what merge_annotaded_variant_and_evaluation_data returned
    score,                 \* the Score object a metric or summary is calculated for
    interpreted_classes,   \* the interpreted classes of the ground truth
    pathogenicity_class_map, \* argument pathogenicity_class_map of a summary
    cutoff,                \* argument cutoff of Score.interpret
    called,                \* the method of the evaluation stage that was called
    call_ret,              \* what that method returned or raised
    warnings,              \* the warnings that method gave (warnings.warn)
    manifest,              \* the manifest handed to PluginBuilder.build_plugin
    built,                 \* what PluginBuilder.build_plugin returned or raised
    invoked,               \* what the call of the built plugin's entry point did
    loaded,                \* what api.load_plugin returned or raised
    directory,             \* the manifests under plugin_path, in the order of the glob
    using,                 \* the plugin selection function given to run_pipeline
    found,                 \* what api.load_plugins returned
    with_data,             \* what the evaluation input file at with_data holds
    extracted,             \* what api.extract_evaluation_data returned or raised
    rpc,                   \* position of run_pipeline
    report,                \* what run_pipeline returned or raised
    docker,                \* the resources of one DockerEntryPoint.run call
    docker_ret             \* what DockerEntryPoint.run returned or raised

\* the state of merging the scores
mergevars == <<how, annotated_variants, scores, evaluation_data,
               how_to_handle_with_missing_values, merge_ret>>

\* the state of interpreting and reporting
scorevars == <<score, interpreted_classes, pathogenicity_class_map, cutoff,
               called, call_ret, warnings>>

\* the state of building a plugin
buildvars == <<manifest, built, invoked, loaded>>

\* the state of run_pipeline
pipevars == <<directory, using, found, with_data, extracted, rpc, report>>

\* the state of a container invocation
dockervars == <<docker, docker_ret>>

restvars == <<pipevars, dockervars>>

evalvars == <<mergevars, scorevars, buildvars, restvars>>

vars == <<plugins, variant_data, cpu_count, ncpus, with_flexible_plugins,
          compat, tpc, traw, tres, pool, pc, next_job, plugin_results, ret,
          evalvars>>

(***************************************************************************)
(* Bounds                                                                  *)
(***************************************************************************)
MaxRows == 2
MaxPlugins == 2
MaxCpus == 2

(***************************************************************************)
(* Vocabularies                                                            *)
(***************************************************************************)
ReferenceGenome == {"hg19", "hg38"}
VariationType == {"snp", "indel"}
Chromosomes == {"1", "X"}

Range(s) == {s[i] : i \in 1..Len(s)}

\* tables of at most n rows built from the row values in R
RECURSIVE SeqsUpTo(_, _)
SeqsUpTo(R, n) ==
    IF n = 0 THEN {<<>>}
    ELSE LET S == SeqsUpTo(R, n - 1)
         IN  S \cup {Append(s, r) : s \in {t \in S : Len(t) = n - 1}, r \in R}

\* EvaluationData.from_records: row i (0-based) gets UID i
WithUIDs(rows) ==
    [i \in 1..Len(rows) |->
        [UID |-> i - 1, CHROM |-> rows[i].CHROM, TYPE |-> rows[i].TYPE, RG |-> rows[i].RG]]

RowValues == [CHROM : Chromosomes, TYPE : VariationType, RG : ReferenceGenome]

Tables == {WithUIDs(s) : s \in SeqsUpTo(RowValues, MaxRows)}

Plugin(name, variations, chroms, genome) ==
    [name |-> name, supported_variations |-> variations,
     supported_chromosomes |-> chroms, reference_genome |-> genome]

Plugins(name) ==
    {Plugin(name, v, c, g) : v \in SUBSET VariationType, c \in SUBSET Chromosomes,
                             g \in ReferenceGenome}

(***************************************************************************)
(* Errors                                                                  *)
(***************************************************************************)
\* type: the exception class; kind: which raise statement; plugin: the plugin
\* name the message carries ("" when it carries none); values: the values the
\* message enumerates
Error(type, kind, plugin, values) ==
    [type |-> type, kind |-> kind, plugin |-> plugin, values |-> values]

NoError == Error("none", "none", "", {})

\* no call has been made yet
Pending == Error("pending", "pending", "", {})

(***************************************************************************)
(* Plugin.is_compatible_with_data                                          *)
(***************************************************************************)
\* Series.unique(): the distinct values in order of first appearance
RECURSIVE unique(_)
unique(s) ==
    IF s = <<>> THEN <<>>
    ELSE LET front == unique(SubSeq(s, 1, Len(s) - 1))
             last == s[Len(s)]
         IN  IF last \in Range(front) THEN front ELSE Append(front, last)

Column(table, c) == [i \in 1..Len(table) |-> table[i][c]]

\* all([...]) over a list of booleans
all(bools) == \A i \in 1..Len(bools) : bools[i]

\* faulty variant: the test of the chromosomes (lines 285-290) is missing
is_compatible_with_data_NoChromCheck(plugin, table) ==
    LET variant_rgs == unique(Column(table, "RG"))
        variant_types == Range(unique(Column(table, "TYPE")))
        supported_variation_types == plugin.supported_variations
    IN  IF ~all([i \in 1..Len(variant_rgs) |-> variant_rgs[i] = plugin.reference_genome])
        THEN Error("RuntimeError", "genome", plugin.name, {})
        ELSE IF ~(variant_types \subseteq supported_variation_types)
        THEN Error("RuntimeError", "types", plugin.name,
                   variant_types \ supported_variation_types)
        ELSE NoError

\* faulty variant: the messages list every value found in the table instead of
\* the set difference
is_compatible_with_data_ListsAllFound(plugin, table) ==
    LET variant_rgs == unique(Column(table, "RG"))
        variant_types == Range(unique(Column(table, "TYPE")))
        supported_variation_types == plugin.supported_variations
        variant_chroms == Range(unique(Column(table, "CHROM")))
        supported_chroms == plugin.supported_chromosomes
    IN  IF ~all([i \in 1..Len(variant_rgs) |-> variant_rgs[i] = plugin.reference_genome])
        THEN Error("RuntimeError", "genome", plugin.name, {})
        ELSE IF ~(variant_types \subseteq supported_variation_types)
        THEN Error("RuntimeError", "types", plugin.name, variant_types)
        ELSE IF ~(variant_chroms \subseteq supported_chroms)
        THEN Error("RuntimeError", "chroms", plugin.name, variant_chroms)
        ELSE NoError

is_compatible_with_data(plugin, table) ==
    LET variant_rgs == unique(Column(table, "RG"))
        variant_types == Range(unique(Column(table, "TYPE")))
        supported_variation_types == plugin.supported_variations
        variant_chroms == Range(unique(Column(table, "CHROM")))
        supported_chroms == plugin.supported_chromosomes
    IN  IF ~all([i \in 1..Len(variant_rgs) |-> variant_rgs[i] = plugin.reference_genome])
        THEN Error("RuntimeError", "genome", plugin.name, {})
        ELSE IF ~(variant_types \subseteq supported_variation_types)
        THEN Error("RuntimeError", "types", plugin.name,
                   variant_types \ supported_variation_types)
        ELSE IF ~(variant_chroms \subseteq supported_chroms)
        THEN Error("RuntimeError", "chroms", plugin.name,
                   variant_chroms \ supported_chroms)
        ELSE NoError

(***************************************************************************)
(* Data frames and call results                                            *)
(***************************************************************************)
\* a data frame: its column names and its rows (functions from column name to
\* cell value), the position of a row being its index label
DataFrame(columns, rows) == [columns |-> columns, rows |-> rows]

NoTable == DataFrame(<<>>, <<>>)

\* value of a call: the returned object, or the exception that left it
Returned(value) == [value |-> value, error |-> NoError]
Raised(error) == [value |-> NoTable, error |-> error]
NoReturn == [value |-> NoTable, error |-> Pending]

\* no Plugin.run call exists
Idle == <<>>

\* Score.interpret() called without a cutoff
NoCutoff == [kind |-> "None", values |-> <<>>]

\* no score is being merged
MergeIdle ==
    /\ how = "inner"
    /\ annotated_variants = NoReturn /\ scores = NoReturn
    /\ evaluation_data = <<>>
    /\ how_to_handle_with_missing_values = "Deletion"
    /\ merge_ret = NoReturn

\* no score is being interpreted or reported
ScoreIdle ==
    /\ score = <<>> /\ interpreted_classes = <<>>
    /\ pathogenicity_class_map = <<>>
    /\ cutoff = NoCutoff
    /\ called = "" /\ call_ret = NoReturn /\ warnings = <<>>

\* no plugin is being built
BuildIdle ==
    manifest = <<>> /\ built = NoReturn /\ invoked = NoReturn /\ loaded = NoReturn

\* no pipeline is running
PipeIdle ==
    /\ directory = <<>> /\ using = "None" /\ found = NoReturn
    /\ with_data = <<>> /\ extracted = NoReturn
    /\ rpc = "idle" /\ report = NoReturn

\* no container invocation is running
DockerIdle == docker = <<>> /\ docker_ret = NoReturn

RestIdle == PipeIdle /\ DockerIdle

\* the evaluation stage has not been entered
EvalIdle == MergeIdle /\ ScoreIdle /\ BuildIdle /\ RestIdle

(***************************************************************************)
(* Plugin._validate_score_table                                            *)
(***************************************************************************)
\* Cell values of a SCORE column:
\*   "0.5" a float, "'0.5'" the str '0.5', "'abc'" the str 'abc',
\*   "NaN" numpy.nan, "None" Python's None
ScoreValues == {"0.5", "'0.5'", "'abc'", "NaN", "None"}

\* Series.astype(float) on one cell: a float stays, a str that spells a number
\* is parsed, None and nan become nan, any other str raises ValueError
astype_float(v) ==
    CASE v = "0.5" -> "0.5"
      [] v = "'0.5'" -> "0.5"
      [] v = "NaN" -> "NaN"
      [] v = "None" -> "NaN"
      [] OTHER -> "ValueError"

\* Series.isin(values), element-wise
isin(series, values) == [i \in 1..Len(series) |-> series[i] \in Range(values)]

\* a & b on two boolean Series: aligned on the union of the index labels, a
\* label missing on one side gives False
series_and(a, b) ==
    [i \in 1..(IF Len(a) >= Len(b) THEN Len(a) ELSE Len(b)) |->
        /\ i <= Len(a) /\ i <= Len(b)
        /\ a[i] /\ b[i]]

HasColumn(df, c) == c \in Range(df.columns)

\* Column("UID", Int, Check(lambda x: variants_uid.isin(x) & x.isin(variants_uid)), required=True)
uid_column_ok(variants_uid, score_table) ==
    /\ HasColumn(score_table, "UID")
    /\ LET x == Column(score_table.rows, "UID")
       IN  all(series_and(isin(variants_uid, x), isin(x, variants_uid)))

\* Column("SCORE", Float, coerce=True, required=True): the column is cast to
\* float on a copy of the table and must then hold no null (nullable=False)
score_column_ok(score_table) ==
    /\ HasColumn(score_table, "SCORE")
    /\ LET coerced == [i \in 1..Len(score_table.rows) |->
                          astype_float(score_table.rows[i]["SCORE"])]
       IN  \A i \in 1..Len(coerced) : coerced[i] \notin {"ValueError", "NaN"}

\* faulty variant: the UID check lacks its half x.isin(variants_uid)
_validate_score_table_NoIsinVariants(variant_information_table, score_table) ==
    LET variants_uid == Column(variant_information_table, "UID")
        x == Column(score_table.rows, "UID")
    IN  IF /\ HasColumn(score_table, "UID")
           /\ all(isin(variants_uid, x))
           /\ score_column_ok(score_table)
        THEN NoError
        ELSE Error("SchemaErrors", "schema", "", {})

\* schema.validate(score_table, lazy=True): raises pandera's SchemaErrors, which
\* names no plugin; the validated copy it returns is dropped by the caller
_validate_score_table(variant_information_table, score_table) ==
    LET variants_uid == Column(variant_information_table, "UID")
    IN  IF uid_column_ok(variants_uid, score_table) /\ score_column_ok(score_table)
        THEN NoError
        ELSE Error("SchemaErrors", "schema", "", {})

(***************************************************************************)
(* Plugin.run                                                              *)
(***************************************************************************)
score_column_name(plugin) == plugin.name \o "_SCORE"

\* DataFrame.rename(columns={old: new})
rename(df, old, new) ==
    LET name(c) == IF c = old THEN new ELSE c
        cols == [i \in 1..Len(df.columns) |-> name(df.columns[i])]
    IN  DataFrame(cols,
                  [r \in 1..Len(df.rows) |->
                      [c \in Range(cols) |->
                          df.rows[r][IF c = new /\ old \in Range(df.columns)
                                     THEN old ELSE c]]])

\* faulty variant: run goes to the entry point without the check of line 213
AfterCheck_Unchecked(plugin, table) == [pc |-> "entry", result |-> NoReturn]

\* line 213: the compatibility check comes first and its exception leaves run
AfterCheck(plugin, table) ==
    LET e == is_compatible_with_data(plugin, table)
    IN  IF e # NoError THEN [pc |-> "raised", result |-> Raised(e)]
        ELSE [pc |-> "entry", result |-> NoReturn]

\* lines 217-218: validate what the entry point returned, then rename SCORE
AfterValidate(plugin, table, score_table) ==
    LET e == _validate_score_table(table, score_table)
    IN  IF e # NoError THEN [pc |-> "raised", result |-> Raised(e)]
        ELSE [pc |-> "returned",
              result |-> Returned(rename(score_table, "SCORE", score_column_name(plugin)))]

\* what an entry point may hand back: tables with the columns UID and SCORE,
\* with one more column, or without SCORE, of at most MaxRows rows, with UIDs
\* of the input and one UID beyond
OutputUIDs == 0..MaxRows

ScoreTables ==
    {DataFrame(<<"UID", "SCORE">>, rows) :
        rows \in SeqsUpTo([UID : OutputUIDs, SCORE : ScoreValues], MaxRows)}
    \cup
    {DataFrame(<<"UID", "SCORE", "EXTRA">>, rows) :
        rows \in SeqsUpTo([UID : OutputUIDs, SCORE : ScoreValues, EXTRA : {"x"}], MaxRows)}
    \cup
    {DataFrame(<<"UID">>, rows) : rows \in SeqsUpTo([UID : OutputUIDs], MaxRows)}

\* Plugin.run was called
PluginRunCheck(i) ==
    /\ i \in DOMAIN tpc
    /\ tpc[i] = "called"
    /\ LET after == AfterCheck(plugins[i], variant_data)
       IN  /\ tpc' = [tpc EXCEPT ![i] = after.pc]
           /\ tres' = [tres EXCEPT ![i] = after.result]
    /\ UNCHANGED <<plugins, variant_data, cpu_count, ncpus, with_flexible_plugins,
                   compat, traw, pool, pc, next_job, plugin_results, ret>>
    /\ UNCHANGED evalvars

\* line 215: entry_point.run returns a table
PluginRunEntry(i, outputs) ==
    /\ i \in DOMAIN tpc
    /\ tpc[i] = "entry"
    /\ \E out \in outputs :
          /\ traw' = [traw EXCEPT ![i] = out]
          /\ tpc' = [tpc EXCEPT ![i] = "validate"]
    /\ UNCHANGED <<plugins, variant_data, cpu_count, ncpus, with_flexible_plugins,
                   compat, tres, pool, pc, next_job, plugin_results, ret>>
    /\ UNCHANGED evalvars

\* line 215: entry_point.run raises (foreign code, docker, a codec); the
\* exception is the foreign one and names no plugin
PluginRunEntryRaises(i) ==
    /\ i \in DOMAIN tpc
    /\ tpc[i] = "entry"
    /\ tpc' = [tpc EXCEPT ![i] = "raised"]
    /\ tres' = [tres EXCEPT ![i] = Raised(Error("Exception", "entry", "", {}))]
    /\ UNCHANGED <<plugins, variant_data, cpu_count, ncpus, with_flexible_plugins,
                   compat, traw, pool, pc, next_job, plugin_results, ret>>
    /\ UNCHANGED evalvars

PluginRunValidate(i) ==
    /\ i \in DOMAIN tpc
    /\ tpc[i] = "validate"
    /\ LET after == AfterValidate(plugins[i], variant_data, traw[i])
       IN  /\ tpc' = [tpc EXCEPT ![i] = after.pc]
           /\ tres' = [tres EXCEPT ![i] = after.result]
    /\ UNCHANGED <<plugins, variant_data, cpu_count, ncpus, with_flexible_plugins,
                   compat, traw, pool, pc, next_job, plugin_results, ret>>
    /\ UNCHANGED evalvars

(***************************************************************************)
(* Direct call of Plugin.run: one plugin, one table                        *)
(***************************************************************************)
\* tables whose rows all have chromosome 1, type snp and genome hg19
PlainTables ==
    {WithUIDs(s) : s \in SeqsUpTo({[CHROM |-> "1", TYPE |-> "snp", RG |-> "hg19"]}, MaxRows)}

\* a plugin that fits the plain tables, one of another genome, one that does
\* not support snp, one that does not support chromosome 1
PlainPlugins(name) ==
    {Plugin(name, VariationType, Chromosomes, "hg19"),
     Plugin(name, VariationType, Chromosomes, "hg38"),
     Plugin(name, {"indel"}, Chromosomes, "hg19"),
     Plugin(name, VariationType, {"X"}, "hg19")}

InitRun ==
    /\ \E p \in PlainPlugins("P1") : plugins = <<p>>
    /\ variant_data \in PlainTables
    /\ cpu_count = 1 /\ ncpus = 1
    /\ with_flexible_plugins \in BOOLEAN
    /\ compat = Pending
    /\ tpc = <<"called">> /\ traw = <<NoTable>> /\ tres = <<NoReturn>>
    /\ pool = "none" /\ pc = "idle" /\ next_job = 1
    /\ plugin_results = <<>> /\ ret = NoReturn
    /\ EvalIdle

NextRun ==
    \/ PluginRunCheck(1)
    \/ PluginRunEntry(1, ScoreTables)
    \/ PluginRunEntryRaises(1)
    \/ PluginRunValidate(1)

SpecRun == InitRun /\ [][NextRun]_vars

(***************************************************************************)
(* AnnotatedVariantData.from_results                                       *)
(***************************************************************************)
VariantColumns == <<"UID", "CHROM", "TYPE", "RG">>

\* DataFrame.merge(right, on="UID"): the inner join; rows in the order of the
\* left table, a left row once per right row with its UID; a column name the
\* two tables share gets the suffixes _x and _y
merge(left, right) ==
    LET shared == (Range(left.columns) \cap Range(right.columns)) \ {"UID"}
        rcols == SelectSeq(right.columns, LAMBDA c : c # "UID")
        lnames == [j \in 1..Len(left.columns) |->
                      IF left.columns[j] \in shared
                      THEN left.columns[j] \o "_x" ELSE left.columns[j]]
        rnames == [j \in 1..Len(rcols) |->
                      IF rcols[j] \in shared THEN rcols[j] \o "_y" ELSE rcols[j]]
        columns == lnames \o rnames
        matches(l) == SelectSeq([r \in 1..Len(right.rows) |-> <<l, r>>],
                                LAMBDA m : left.rows[m[1]]["UID"] = right.rows[m[2]]["UID"])
        pairs[l \in 1..(Len(left.rows) + 1)] ==
            IF l > Len(left.rows) THEN <<>> ELSE matches(l) \o pairs[l + 1]
        cell(m, c) ==
            LET j == CHOOSE k \in 1..Len(columns) : columns[k] = c
            IN  IF j <= Len(lnames) THEN left.rows[m[1]][left.columns[j]]
                ELSE right.rows[m[2]][rcols[j - Len(lnames)]]
    IN  DataFrame(columns,
                  [k \in 1..Len(pairs[1]) |->
                      [c \in Range(columns) |-> cell(pairs[1][k], c)]])

AnnotatedVariantData(annotated_variant_data, plugin_list) ==
    [annotated_variant_data |-> annotated_variant_data, plugins |-> plugin_list]

\* faulty variant: every score table is merged onto the original table, so
\* that only the last plugin's column is kept
from_results_OnlyLast(original_variant_data, results) ==
    LET joined[n \in 0..Len(results)] ==
            IF n = 0 THEN original_variant_data
            ELSE merge(original_variant_data, results[n].scores)
    IN  AnnotatedVariantData(joined[Len(results)],
                             [n \in 1..Len(results) |-> results[n].plugin])

from_results(original_variant_data, results) ==
    LET merged[n \in 0..Len(results)] ==
            IF n = 0 THEN original_variant_data
            ELSE merge(merged[n - 1], results[n].scores)
    IN  AnnotatedVariantData(merged[Len(results)],
                             [n \in 1..Len(results) |-> results[n].plugin])

(***************************************************************************)
(* invoke_methods                                                          *)
(***************************************************************************)
PluginName(j) == "P" \o ToString(j)

\* the plugin lists of a call: up to MaxPlugins plugins of distinct names
PluginLists ==
    UNION {[1..n -> PlainPlugins("P")] : n \in 0..MaxPlugins}

Named(list) == [j \in 1..Len(list) |-> [list[j] EXCEPT !.name = PluginName(j)]]

\* the score table that gives every row of the table the score v
Scored(table, v) ==
    DataFrame(<<"UID", "SCORE">>,
              [r \in 1..Len(table) |-> [UID |-> table[r].UID, SCORE |-> v]])

\* what the entry points of a parallel call hand back: a score for every
\* variant, a null score for every variant, or scores for all but the last
InvokeOutputs(table) ==
    {Scored(table, "0.5"), Scored(table, "NaN"),
     Scored(SubSeq(table, 1, Len(table) - 1), "0.5")}

Running(i) == tpc[i] \in {"called", "entry", "validate"}

\* cpu_count and the machine's number of CPUs: the default -1 on machines of
\* up to MaxCpus CPUs, and an explicit count (for which the number of CPUs is
\* not read)
CpuCounts ==
    {<<-1, n>> : n \in 1..MaxCpus} \cup {<<c, MaxCpus>> : c \in 1..MaxCpus}

InitInvoke ==
    /\ \E list \in PluginLists : plugins = Named(list)
    /\ variant_data \in PlainTables
    /\ \E call \in CpuCounts : cpu_count = call[1] /\ ncpus = call[2]
    /\ with_flexible_plugins = FALSE
    /\ compat = Pending
    /\ tpc = [i \in 1..Len(plugins) |-> "none"]
    /\ traw = [i \in 1..Len(plugins) |-> NoTable]
    /\ tres = [i \in 1..Len(plugins) |-> NoReturn]
    /\ pool = "none" /\ pc = "start" /\ next_job = 1
    /\ plugin_results = <<>> /\ ret = NoReturn
    /\ EvalIdle

\* faulty variant: the default takes every CPU of the machine
PoolSize_AllCpus(count, cpus) == IF count = -1 THEN cpus ELSE count

\* mp.Pool(processes): ValueError unless processes >= 1
PoolSize(count, cpus) == IF count = -1 THEN cpus - 1 ELSE count

\* lines 172-178: the map object of line 172 is never consumed, so no check
\* runs here; the pool is created and every plugin is submitted
InvokeStart ==
    /\ pc = "start"
    /\ cpu_count' = PoolSize(cpu_count, ncpus)
    /\ IF cpu_count' < 1
       THEN /\ pc' = "raised"
            /\ ret' = Raised(Error("ValueError", "pool", "", {}))
            /\ UNCHANGED <<pool, tpc>>
       ELSE /\ pc' = "collect"
            /\ pool' = "open"
            /\ tpc' = [i \in DOMAIN tpc |-> "queued"]
            /\ UNCHANGED ret
    /\ UNCHANGED <<plugins, variant_data, ncpus, with_flexible_plugins, compat,
                   traw, tres, next_job, plugin_results>>
    /\ UNCHANGED evalvars

\* a free worker of the pool takes the oldest queued job and calls
\* invoke_method, that is Plugin.run
WorkerPick(i) ==
    /\ pool \in {"open", "closed"}
    /\ i \in DOMAIN tpc
    /\ tpc[i] = "queued"
    /\ \A j \in 1..(i - 1) : tpc[j] # "queued"
    /\ Cardinality({j \in DOMAIN tpc : Running(j)}) < cpu_count
    /\ tpc' = [tpc EXCEPT ![i] = "called"]
    /\ UNCHANGED <<plugins, variant_data, cpu_count, ncpus, with_flexible_plugins,
                   compat, traw, tres, pool, pc, next_job, plugin_results, ret>>
    /\ UNCHANGED evalvars

\* line 181: job.get() of a job that returned
JobGetReturns ==
    /\ pc = "collect"
    /\ next_job \in DOMAIN tpc
    /\ tpc[next_job] = "returned"
    /\ plugin_results' = Append(plugin_results,
                                [plugin |-> plugins[next_job],
                                 scores |-> tres[next_job].value])
    /\ next_job' = next_job + 1
    /\ UNCHANGED <<plugins, variant_data, cpu_count, ncpus, with_flexible_plugins,
                   compat, tpc, traw, tres, pool, pc, ret>>
    /\ UNCHANGED evalvars

\* line 181: job.get() of a job that raised raises the job's exception again,
\* which leaves invoke_methods: the pool is neither closed nor joined
JobGetRaises ==
    /\ pc = "collect"
    /\ next_job \in DOMAIN tpc
    /\ tpc[next_job] = "raised"
    /\ pc' = "raised"
    /\ ret' = Raised(tres[next_job].error)
    /\ UNCHANGED <<plugins, variant_data, cpu_count, ncpus, with_flexible_plugins,
                   compat, tpc, traw, tres, pool, next_job, plugin_results>>
    /\ UNCHANGED evalvars

\* lines 182-183: every job was collected
InvokeReturn ==
    /\ pc = "collect"
    /\ next_job = Len(plugins) + 1
    /\ pool' = "closed"
    /\ ret' = Returned(from_results(DataFrame(VariantColumns, variant_data),
                                    plugin_results))
    /\ pc' = "returned"
    /\ UNCHANGED <<plugins, variant_data, cpu_count, ncpus, with_flexible_plugins,
                   compat, tpc, traw, tres, next_job, plugin_results>>
    /\ UNCHANGED evalvars

\* the Pool object that the exception left behind is finalized (garbage
\* collection or interpreter exit): Pool._terminate_pool terminates the
\* workers, whatever they run, and drops the queued jobs.  When this happens,
\* and whether before the remaining jobs end, is not determined by the code.
PoolFinalize ==
    /\ pc = "raised"
    /\ pool = "open"
    /\ pool' = "terminated"
    /\ tpc' = [i \in DOMAIN tpc |->
                  IF tpc[i] = "queued" \/ Running(i) THEN "terminated" ELSE tpc[i]]
    /\ UNCHANGED <<plugins, variant_data, cpu_count, ncpus, with_flexible_plugins,
                   compat, traw, tres, pc, next_job, plugin_results, ret>>
    /\ UNCHANGED evalvars

Next ==
    \/ InvokeStart
    \/ \E i \in DOMAIN tpc : WorkerPick(i)
    \/ \E i \in DOMAIN tpc : PluginRunCheck(i)
    \/ \E i \in DOMAIN tpc : PluginRunEntry(i, InvokeOutputs(variant_data))
    \/ \E i \in DOMAIN tpc : PluginRunEntryRaises(i)
    \/ \E i \in DOMAIN tpc : PluginRunValidate(i)
    \/ JobGetReturns
    \/ JobGetRaises
    \/ InvokeReturn
    \/ PoolFinalize

Spec == InitInvoke /\ [][Next]_vars

(***************************************************************************)
(* Direct call of the compatibility check (api.is_plugin_compatible_with_  *)
(* data): one plugin, one table                                            *)
(***************************************************************************)
InitCompat ==
    /\ \E p \in Plugins("P1") : plugins = <<p>>
    /\ variant_data \in Tables
    /\ cpu_count = 1 /\ ncpus = 1
    /\ with_flexible_plugins = FALSE
    /\ compat = Pending
    /\ tpc = Idle /\ traw = Idle /\ tres = Idle
    /\ pool = "none" /\ pc = "idle" /\ next_job = 1
    /\ plugin_results = <<>> /\ ret = NoReturn
    /\ EvalIdle

\* plugin.is_compatible_with_data(data.variant_data); return True
is_plugin_compatible_with_data ==
    /\ compat = Pending
    /\ compat' = is_compatible_with_data(plugins[1], variant_data)
    /\ UNCHANGED <<plugins, variant_data, cpu_count, ncpus, with_flexible_plugins,
                   tpc, traw, tres, pool, pc, next_job, plugin_results, ret>>
    /\ UNCHANGED evalvars

NextCompat == is_plugin_compatible_with_data

SpecCompat == InitCompat /\ [][NextCompat]_vars

(***************************************************************************)
(* Properties of the compatibility check (SpecCompat)                      *)
(***************************************************************************)
RowsOf(table) == 1..Len(table)

GenomeMismatch(plugin, table) ==
    \E r \in RowsOf(table) : table[r].RG # plugin.reference_genome

UnsupportedTypes(plugin, table) ==
    {t \in VariationType :
        /\ \E r \in RowsOf(table) : table[r].TYPE = t
        /\ t \notin plugin.supported_variations}

UnsupportedChroms(plugin, table) ==
    {c \in Chromosomes :
        /\ \E r \in RowsOf(table) : table[r].CHROM = c
        /\ c \notin plugin.supported_chromosomes}

\* C4: the check raises exactly when some row has another genome than the
\* plugin, or a variation type or a chromosome of the table is not supported;
\* whatever the outcome, the call leaves the variant table as it was.
C4_RaisesIffIncompatible ==
    [][(compat = Pending /\ compat' # Pending) =>
          /\ variant_data' = variant_data
          /\ (compat' # NoError) <=>
                \/ GenomeMismatch(plugins[1], variant_data)
                \/ UnsupportedTypes(plugins[1], variant_data) # {}
                \/ UnsupportedChroms(plugins[1], variant_data) # {}]_vars

\* the check has raised for a table of two rows whose only fault is a
\* chromosome the plugin does not support
C4_Witness ==
    /\ compat.kind = "chroms"
    /\ Len(variant_data) = 2
    /\ ~GenomeMismatch(plugins[1], variant_data)
    /\ UnsupportedTypes(plugins[1], variant_data) = {}

\* C5: when the table has rows and none of them has the plugin's genome, the
\* check fails and the failure lists the genome values found in the table.
C5_GenomeFailureListsGenomes ==
    (/\ compat # Pending
     /\ Len(variant_data) > 0
     /\ \A r \in RowsOf(variant_data) : variant_data[r].RG # plugins[1].reference_genome)
    => /\ compat.type = "RuntimeError"
       /\ compat.values = {variant_data[r].RG : r \in RowsOf(variant_data)}

\* C6: a failure on variation types lists exactly the types that occur in the
\* table and are not supported, a failure on chromosomes exactly the
\* chromosomes that occur and are not supported; a plugin that supports only
\* snp fails on a table with one indel row and reports indel.
C6_ListsExactlyUnsupported ==
    /\ compat.kind = "types" => compat.values = UnsupportedTypes(plugins[1], variant_data)
    /\ compat.kind = "chroms" => compat.values = UnsupportedChroms(plugins[1], variant_data)
    /\ (/\ compat # Pending
        /\ plugins[1].supported_variations = {"snp"}
        /\ ~GenomeMismatch(plugins[1], variant_data)
        /\ Cardinality({r \in RowsOf(variant_data) : variant_data[r].TYPE = "indel"}) = 1)
       => (compat.kind = "types" /\ compat.values = {"indel"})

\* a plugin that supports only snp has failed on a table of one snp row and
\* one indel row, reporting indel
C6_Witness ==
    /\ compat.kind = "types"
    /\ compat.values = {"indel"}
    /\ plugins[1].supported_variations = {"snp"}
    /\ Len(variant_data) = 2
    /\ \E r \in RowsOf(variant_data) : variant_data[r].TYPE = "snp"

(***************************************************************************)
(* Properties of Plugin.run and its output validation (SpecRun)            *)
(***************************************************************************)
UIDsOf(rows) == {rows[r]["UID"] : r \in 1..Len(rows)}

\* Plugin.run of plugin i got as far as validating the entry point's output
Validated(i) ==
    \/ tpc[i] = "returned"
    \/ tpc[i] = "raised" /\ tres[i].error.kind = "schema"

\* a float in every SCORE cell, and the columns UID and SCORE only
WellFormed(score_table) ==
    /\ score_table.columns = <<"UID", "SCORE">>
    /\ \A r \in 1..Len(score_table.rows) : score_table.rows[r]["SCORE"] = "0.5"

\* C7: a score table is accepted only if it holds every UID of the input,
\* unless flexible mode is on, and then a table that leaves out input UIDs
\* (and has no other fault) is accepted.
C7_FlexibleAcceptsMissingUIDs ==
    \A i \in DOMAIN tpc :
        Validated(i) =>
            /\ tpc[i] = "returned" =>
                  \/ UIDsOf(variant_data) \subseteq UIDsOf(traw[i].rows)
                  \/ with_flexible_plugins
            /\ (/\ with_flexible_plugins
                /\ WellFormed(traw[i])
                /\ UIDsOf(traw[i].rows) \subseteq UIDsOf(variant_data)
                /\ Cardinality(UIDsOf(traw[i].rows)) = Len(traw[i].rows))
               => tpc[i] = "returned"

\* C8: the UIDs of an accepted score table are UIDs of the input; an output
\* with a UID that is not in the input is rejected.
C8_AcceptedUIDsAreInputUIDs ==
    \A i \in DOMAIN tpc :
        /\ tpc[i] = "returned" =>
              /\ UIDsOf(tres[i].value.rows) \subseteq UIDsOf(variant_data)
              /\ UIDsOf(traw[i].rows) \subseteq UIDsOf(variant_data)
        /\ (Validated(i) /\ ~(UIDsOf(traw[i].rows) \subseteq UIDsOf(variant_data)))
           => tpc[i] = "raised"

\* an output with as many rows as the input and floats in every SCORE cell,
\* one of its UIDs not being in the input, has been rejected
C8_Witness ==
    /\ tpc = <<"raised">>
    /\ tres[1].error.kind = "schema"
    /\ WellFormed(traw[1])
    /\ Len(traw[1].rows) = Len(variant_data)
    /\ ~(UIDsOf(traw[1].rows) \subseteq UIDsOf(variant_data))

\* C9: every cell of the score column of a table that Plugin.run returns is a
\* number (a float), never a null and never a value of another type.
C9_ReturnedScoresAreNumbers ==
    \A i \in DOMAIN tpc :
        tpc[i] = "returned" =>
            \A r \in 1..Len(tres[i].value.rows) :
                tres[i].value.rows[r][score_column_name(plugins[i])] = "0.5"

\* C10: the table Plugin.run returns has the two columns UID and
\* <name>_SCORE and nothing else, and one row per variant of the input.
C10_ReturnedTableHasTwoColumns ==
    \A i \in DOMAIN tpc :
        tpc[i] = "returned" =>
            /\ Len(tres[i].value.columns) = 2
            /\ Range(tres[i].value.columns) = {"UID", score_column_name(plugins[i])}
            /\ Len(tres[i].value.rows) = Len(variant_data)

(***************************************************************************)
(* Properties of invoke_methods (Spec)                                     *)
(***************************************************************************)
Ended == pc \in {"returned", "raised"}

ScoreColumnsOf(annotated) ==
    Range(annotated.annotated_variant_data.columns) \ Range(VariantColumns)

\* C1: when one plugin of the list succeeds and another raises while it
\* executes, the call returns a merged table with the score columns of exactly
\* the plugins that succeeded (the failure does not become the call's failure).
C1_FailureIsIsolated ==
    (/\ Ended
     /\ \E i \in DOMAIN tpc : tpc[i] = "returned"
     /\ \E j \in DOMAIN tpc : tpc[j] = "raised" /\ tres[j].error.kind = "entry")
    => /\ pc = "returned"
       /\ ScoreColumnsOf(ret.value) =
             {score_column_name(plugins[i]) : i \in {k \in DOMAIN tpc : tpc[k] = "returned"}}

\* C2: no job that was submitted to the pool is terminated or dropped, also
\* when the job of another plugin has failed.
C2_NoSiblingTerminated ==
    \A i \in DOMAIN tpc : tpc[i] # "terminated"

\* the entry point of plugin i has been started
EntryStarted(i) ==
    \/ tpc[i] \in {"entry", "validate", "returned"}
    \/ tpc[i] = "raised" /\ tres[i].error.kind \in {"entry", "schema"}

\* C3: an entry point starts only for a plugin whose compatibility check on
\* the given table has passed: every row has the plugin's genome, and every
\* variation type and chromosome of the table is supported.
C3_EntryOnlyAfterCompatibility ==
    \A i \in DOMAIN tpc :
        EntryStarted(i) =>
            /\ ~GenomeMismatch(plugins[i], variant_data)
            /\ UnsupportedTypes(plugins[i], variant_data) = {}
            /\ UnsupportedChroms(plugins[i], variant_data) = {}

\* one plugin was refused by its compatibility check while the entry point of
\* another one is running
C3_Witness ==
    \E i, j \in DOMAIN tpc :
        /\ tpc[i] = "raised"
        /\ tres[i].error.kind = "chroms"
        /\ tpc[j] = "entry"

(***************************************************************************)
(* The evaluation stage: a direct call of AnnotatedVariantData.from_results,*)
(* the property AnnotatedVariantData.scores, and                           *)
(* merge_annotaded_variant_and_evaluation_data                             *)
(***************************************************************************)
\* a pandas Series: its index labels and its values
Series(index, values) == [index |-> index, values |-> values]

\* the index a merge gives its result: 0, 1, ...
RangeIndex(n) == [k \in 1..n |-> k - 1]

\* Score(plugin, data)
Score(plugin, data) == [plugin |-> plugin, data |-> data]

\* data.py 195-209: one Score per plugin of the list, from the column named
\* plugin.score_column_name; the lookup of a column the table does not have
\* raises KeyError
AnnotatedVariantData_scores(avd) ==
    LET table == avd.annotated_variant_data
        absent == {i \in 1..Len(avd.plugins) :
                      ~HasColumn(table, score_column_name(avd.plugins[i]))}
    IN  IF absent # {}
        THEN LET i == CHOOSE j \in absent : \A k \in absent : j <= k
             IN  Raised(Error("KeyError", "column", avd.plugins[i].name,
                              {score_column_name(avd.plugins[i])}))
        ELSE Returned([i \in 1..Len(avd.plugins) |->
                          Score(avd.plugins[i],
                                Series(RangeIndex(Len(table.rows)),
                                       Column(table.rows, score_column_name(avd.plugins[i]))))])

\* the merge policies a caller may want
MergePolicies == {"inner", "outer"}

\* from_results(original_variant_data, plugin_results) merges with the default
\* of DataFrame.merge, the inner join, and has no parameter for a policy: a
\* call that passes another one raises TypeError
from_results_call(policy, original_variant_data, results) ==
    IF policy # "inner"
    THEN Raised(Error("TypeError", "argument", "", {policy}))
    ELSE Returned(from_results(original_variant_data, results))

\* the score table of the rows of the table in reverse order
Reversed(df) ==
    DataFrame(df.columns, [r \in 1..Len(df.rows) |-> df.rows[Len(df.rows) + 1 - r]])

\* the score table with a null as the score of the last variant
LastNull(df) ==
    DataFrame(df.columns,
              [r \in 1..Len(df.rows) |->
                  IF r = Len(df.rows) THEN [df.rows[r] EXCEPT !["SCORE"] = "NaN"]
                  ELSE df.rows[r]])

\* the score tables handed to a direct call: a score for every variant, the
\* same in reverse order, a null as the score of the last variant, and scores
\* for all variants but the last
MergeOutputs(table) ==
    {Scored(table, "0.5"), Reversed(Scored(table, "0.5")),
     LastNull(Scored(table, "0.5")),
     Scored(SubSeq(table, 1, Len(table) - 1), "0.5")}

FitPlugin(name) == Plugin(name, VariationType, Chromosomes, "hg19")

\* plugin names of a list; two plugins of a list may have the same name
MergeNames == {PluginName(j) : j \in 1..MaxPlugins}

PathogencityClass == {"benign", "pathogenic"}

EvaluationColumns == <<"UID", "CHROM", "TYPE", "RG", "CLASS">>

\* the EvaluationData tables whose variant_data is the table
EvaluationTables(table) ==
    {[r \in 1..Len(table) |->
         [UID |-> table[r].UID, CHROM |-> table[r].CHROM, TYPE |-> table[r].TYPE,
          RG |-> table[r].RG, CLASS |-> classes[r]]] :
        classes \in [1..Len(table) -> PathogencityClass]}

InitMerge ==
    /\ variant_data \in PlainTables
    /\ \E n \in 0..MaxPlugins :
          \E names \in [1..n -> MergeNames], outs \in [1..n -> MergeOutputs(variant_data)] :
             /\ plugins = [i \in 1..n |-> FitPlugin(names[i])]
             /\ traw = outs
             /\ plugin_results =
                   [i \in 1..n |->
                       [plugin |-> FitPlugin(names[i]),
                        scores |-> rename(outs[i], "SCORE",
                                          score_column_name(FitPlugin(names[i])))]]
    /\ evaluation_data \in EvaluationTables(variant_data)
    /\ cpu_count = 1 /\ ncpus = 1
    /\ with_flexible_plugins = FALSE
    /\ compat = Pending
    /\ tpc = Idle /\ tres = Idle
    /\ pool = "none" /\ pc = "idle" /\ next_job = 1
    /\ ret = NoReturn
    /\ how = "inner"
    /\ annotated_variants = NoReturn /\ scores = NoReturn
    /\ how_to_handle_with_missing_values = "Deletion"
    /\ merge_ret = NoReturn
    /\ ScoreIdle /\ BuildIdle /\ RestIdle

\* AnnotatedVariantData.from_results(variant_data, plugin_results), asked for
\* a merge policy or not
FromResults ==
    /\ annotated_variants.error = Pending
    /\ \E policy \in MergePolicies :
          /\ how' = policy
          /\ annotated_variants' =
                from_results_call(policy, DataFrame(VariantColumns, variant_data),
                                  plugin_results)
    /\ UNCHANGED <<plugins, variant_data, cpu_count, ncpus, with_flexible_plugins,
                   compat, tpc, traw, tres, pool, pc, next_job, plugin_results, ret,
                   scores, evaluation_data, how_to_handle_with_missing_values,
                   merge_ret, scorevars, buildvars, restvars>>

\* annotated_variants.scores
ScoresProperty ==
    /\ annotated_variants.error = NoError
    /\ scores.error = Pending
    /\ scores' = AnnotatedVariantData_scores(annotated_variants.value)
    /\ UNCHANGED <<plugins, variant_data, cpu_count, ncpus, with_flexible_plugins,
                   compat, tpc, traw, tres, pool, pc, next_job, plugin_results, ret,
                   how, annotated_variants, evaluation_data,
                   how_to_handle_with_missing_values, merge_ret, scorevars, buildvars, restvars>>

\* enums.py 16-32: PathogencityClass.interpret
PathogencityClass_interpret(class) == IF class = "pathogenic" THEN 1 ELSE 0

MissingValuePolicies == {"Deletion", "Imputation-Benign", "Imputation-Pathogenic"}

\* a data frame together with the index labels of its rows
Indexed(df, index) == [columns |-> df.columns, rows |-> df.rows, index |-> index]

\* a cell is null; UID is a column of integers, which holds no null
isna(c, v) == c # "UID" /\ v = "NaN"

\* DataFrame.dropna(): the rows without a null cell, under their old labels
dropna(frame) ==
    LET keep == SelectSeq([k \in 1..Len(frame.rows) |-> k],
                          LAMBDA k : \A c \in Range(frame.columns) :
                                        ~isna(c, frame.rows[k][c]))
    IN  [columns |-> frame.columns,
         rows |-> [j \in 1..Len(keep) |-> frame.rows[keep[j]]],
         index |-> [j \in 1..Len(keep) |-> frame.index[keep[j]]]]

\* DataFrame.fillna(value): every null cell becomes the value
fillna(frame, value) ==
    [columns |-> frame.columns,
     rows |-> [k \in 1..Len(frame.rows) |->
                  [c \in Range(frame.columns) |->
                      IF isna(c, frame.rows[k][c]) THEN value ELSE frame.rows[k][c]]],
     index |-> frame.index]

\* frame[c]
getitem(frame, c) == Series(frame.index, Column(frame.rows, c))

\* faulty variant: the nulls are dropped from each score column by itself
merge_annotaded_variant_and_evaluation_data_PerColumn(avd, evaluation_table, policy) ==
    LET our_data == Indexed(merge(avd.annotated_variant_data,
                                  DataFrame(EvaluationColumns, evaluation_table)),
                            RangeIndex(Len(merge(avd.annotated_variant_data,
                                  DataFrame(EvaluationColumns, evaluation_table)).rows)))
        old_scores == AnnotatedVariantData_scores(avd)
        column(c) ==
            LET keep == SelectSeq([k \in 1..Len(our_data.rows) |-> k],
                                  LAMBDA k : ~isna(c, our_data.rows[k][c]))
            IN  Series([j \in 1..Len(keep) |-> our_data.index[keep[j]]],
                       [j \in 1..Len(keep) |-> our_data.rows[keep[j]][c]])
    IN  IF old_scores.error # NoError THEN Raised(old_scores.error)
        ELSE Returned(
               [scores |-> [i \in 1..Len(avd.plugins) |->
                               Score(avd.plugins[i],
                                     column(score_column_name(avd.plugins[i])))],
                new_interpreted_classes |->
                    Series(our_data.index,
                           [k \in 1..Len(our_data.rows) |->
                               PathogencityClass_interpret(our_data.rows[k]["CLASS"])])])

\* api.py 253-268
merge_annotaded_variant_and_evaluation_data(avd, evaluation_table, policy) ==
    LET joined == merge(avd.annotated_variant_data,
                        DataFrame(EvaluationColumns, evaluation_table))
        frame == Indexed(joined, RangeIndex(Len(joined.rows)))
        our_data ==
            CASE policy = "Deletion" -> dropna(frame)
              [] policy = "Imputation-Benign" -> fillna(frame, "0.0")
              [] policy = "Imputation-Pathogenic" -> fillna(frame, "1.0")
              [] OTHER -> frame
        new_interpreted_classes ==
            Series(our_data.index,
                   [k \in 1..Len(our_data.rows) |->
                       PathogencityClass_interpret(our_data.rows[k]["CLASS"])])
        old_scores == AnnotatedVariantData_scores(avd)
    IN  IF old_scores.error # NoError THEN Raised(old_scores.error)
        ELSE Returned(
               [scores |-> [i \in 1..Len(avd.plugins) |->
                               Score(avd.plugins[i],
                                     getitem(our_data, score_column_name(avd.plugins[i])))],
                new_interpreted_classes |-> new_interpreted_classes])

MergeWithEvaluation ==
    /\ annotated_variants.error = NoError
    /\ merge_ret.error = Pending
    /\ \E policy \in MissingValuePolicies :
          /\ how_to_handle_with_missing_values' = policy
          /\ merge_ret' = merge_annotaded_variant_and_evaluation_data(
                              annotated_variants.value, evaluation_data, policy)
    /\ UNCHANGED <<plugins, variant_data, cpu_count, ncpus, with_flexible_plugins,
                   compat, tpc, traw, tres, pool, pc, next_job, plugin_results, ret,
                   how, annotated_variants, scores, evaluation_data, scorevars,
                   buildvars, restvars>>

NextMerge ==
    \/ FromResults
    \/ ScoresProperty
    \/ MergeWithEvaluation

SpecMerge == InitMerge /\ [][NextMerge]_vars

(***************************************************************************)
(* Properties of the evaluation stage (SpecMerge)                          *)
(***************************************************************************)
\* the score table handed in for plugin i passes Plugin._validate_score_table
Accepted(i) == _validate_score_table(variant_data, traw[i]) = NoError

\* from_results was called with its two arguments and returned
Merged == how = "inner" /\ annotated_variants.error = NoError

OneRowPerUID(table) ==
    \A r1, r2 \in 1..Len(table.rows) :
        table.rows[r1]["UID"] = table.rows[r2]["UID"] => r1 = r2

OneScoreColumnPerPlugin(avd) ==
    \A i \in 1..Len(avd.plugins) :
        Cardinality({j \in 1..Len(avd.annotated_variant_data.columns) :
                        avd.annotated_variant_data.columns[j] =
                            score_column_name(avd.plugins[i])}) = 1

ScoresFound == scores.error # Pending => scores.error = NoError

DistinctNames == \A i, j \in 1..Len(plugins) : plugins[i].name = plugins[j].name => i = j

\* C11: for a variant table with unique UIDs and any list of accepted plugin
\* results, the table from_results builds has no UID in two rows and exactly
\* one column <plugin name>_SCORE per plugin, so that the property scores
\* finds a column for every plugin of the list.
C11_OneRowPerUIDOneColumnPerPlugin ==
    (Merged /\ \A i \in 1..Len(plugins) : Accepted(i))
    => /\ OneRowPerUID(annotated_variants.value.annotated_variant_data)
       /\ OneScoreColumnPerPlugin(annotated_variants.value)
       /\ ScoresFound

\* C11 as amended: the same, for accepted plugin results that have the two
\* columns UID and SCORE and come from plugins of pairwise distinct names.
C11_DistinctNamesOneColumnPerPlugin ==
    (/\ Merged
     /\ DistinctNames
     /\ \A i \in 1..Len(plugins) : Accepted(i) /\ traw[i].columns = <<"UID", "SCORE">>)
    => /\ OneRowPerUID(annotated_variants.value.annotated_variant_data)
       /\ OneScoreColumnPerPlugin(annotated_variants.value)
       /\ ScoresFound
       /\ scores.error = NoError => Len(scores.value) = Len(plugins)

\* the scores of two plugins of different names were found in the table merged
\* from their accepted results, for a table of two variants
C11_Witness ==
    /\ Merged
    /\ scores.error = NoError
    /\ Len(plugins) = 2 /\ DistinctNames
    /\ Len(variant_data) = 2
    /\ \A i \in 1..Len(plugins) : Accepted(i)
    /\ traw[1] # traw[2]

\* the UIDs of the variant table that every plugin's score table holds
CommonUIDs ==
    {u \in UIDsOf(variant_data) : \A i \in 1..Len(plugins) : u \in UIDsOf(traw[i].rows)}

\* the merged table keeps variant u with a null for every plugin that has no
\* score for u
KeptWithNulls(table, u) ==
    \E r \in 1..Len(table.rows) :
        /\ table.rows[r]["UID"] = u
        /\ \A i \in 1..Len(plugins) :
              u \notin UIDsOf(traw[i].rows)
              => table.rows[r][score_column_name(plugins[i])] = "NaN"

\* C12: the merger has two policies; under outer the merged table has as many
\* rows as the variant table, a variant without a score of some plugin being
\* kept with a null; under inner its number of rows is the number of UIDs that
\* every plugin's output holds.
C12_OuterKeepsRowsInnerKeepsCommon ==
    (annotated_variants.error # Pending /\ DistinctNames)
    => /\ how = "outer" =>
             /\ annotated_variants.error = NoError
             /\ Len(annotated_variants.value.annotated_variant_data.rows) = Len(variant_data)
             /\ \A u \in UIDsOf(variant_data) :
                   KeptWithNulls(annotated_variants.value.annotated_variant_data, u)
       /\ how = "inner" =>
             /\ annotated_variants.error = NoError
             /\ Len(annotated_variants.value.annotated_variant_data.rows) =
                   Cardinality(CommonUIDs)

(***************************************************************************)
(* Score.interpret, the summaries and the metrics                          *)
(***************************************************************************)
\* score and cutoff values, in tenths
ScoreNumbers == 0..2

\* a cutoff is a float or a list of floats
Scalar(c) == [kind |-> "float", values |-> <<c>>]
CutoffList(cs) == [kind |-> "list", values |-> cs]

\* the strictly increasing lists of two and of three cutoffs
CutoffLists ==
    {CutoffList(<<a, b>>) : a, b \in ScoreNumbers} \cup
    {CutoffList(<<a, b, c>>) : a, b, c \in ScoreNumbers}

StrictlyIncreasing(cs) == \A i, j \in 1..Len(cs) : i < j => cs[i] < cs[j]

Cutoffs ==
    {Scalar(c) : c \in ScoreNumbers} \cup
    {l \in CutoffLists : StrictlyIncreasing(l.values)}

\* a plugin and its cutoff
CutoffPlugin(name, c) ==
    [name |-> name, supported_variations |-> VariationType,
     supported_chromosomes |-> Chromosomes, reference_genome |-> "hg19",
     cutoff |-> c]

\* faulty variant: a value equal to the cutoff counts as greater
Score_interpret_GreaterEqual(sc, cut) ==
    LET c == IF cut = NoCutoff THEN sc.plugin.cutoff ELSE cut
    IN  IF c.kind = "list" /\ Len(sc.data.values) > 0
        THEN Raised(Error("TypeError", "compare", "", {}))
        ELSE Returned(Series(sc.data.index,
                             [i \in 1..Len(sc.data.values) |->
                                 IF sc.data.values[i] >= c.values[1] THEN 1 ELSE 0]))

\* plugin.py 440-458: self.data.apply(lambda value: 1 if value > cutoff else 0)
\* gives a new Series with the index of the data; the comparison of a float
\* with a list raises TypeError, for the first value of the data
Score_interpret(sc, cut) ==
    LET c == IF cut = NoCutoff THEN sc.plugin.cutoff ELSE cut
    IN  IF c.kind = "list" /\ Len(sc.data.values) > 0
        THEN Raised(Error("TypeError", "compare", "", {}))
        ELSE Returned(Series(sc.data.index,
                             [i \in 1..Len(sc.data.values) |->
                                 IF sc.data.values[i] > c.values[1] THEN 1 ELSE 0]))

\* the map from the classes to their numbers that the summaries take when
\* none is passed
default_pathogencity_class_map ==
    [class \in PathogencityClass |-> PathogencityClass_interpret(class)]

\* the map of three classes
MultiClassMap == ("benign" :> 0) @@ ("likely pathogenic" :> 1) @@ ("pathogenic" :> 2)

ClassMaps == {default_pathogencity_class_map, MultiClassMap}

\* the numbers of the classes of a ground truth
ClassValues == {0, 1, 2}

\* sorted(values, reverse=True)
RECURSIVE SortedDesc(_)
SortedDesc(S) ==
    IF S = {} THEN <<>>
    ELSE LET m == CHOOSE x \in S : \A y \in S : y <= x
         IN  <<m>> \o SortedDesc(S \ {m})

\* sklearn.metrics.confusion_matrix(y_true, y_pred, labels=labels): cell (i, j)
\* counts the rows of true class labels[i] and predicted class labels[j]; a row
\* whose class is not among the labels is not counted; no row gives the matrix
\* of zeros; ValueError when no label occurs in y_true
confusion_matrix(y_true, y_pred, labels) ==
    LET n == Len(labels)
    IN  IF Len(y_true) > 0 /\ \A i \in 1..n : labels[i] \notin Range(y_true)
        THEN Raised(Error("ValueError", "labels", "", {}))
        ELSE Returned([ij \in (1..n) \X (1..n) |->
                          Cardinality({r \in 1..Len(y_true) :
                                          /\ y_true[r] = labels[ij[1]]
                                          /\ y_pred[r] = labels[ij[2]]})])

\* numpy.ndarray.ravel(): the cells row by row
ravel(cm, n) == [k \in 1..(n * n) |-> cm[<<((k - 1) \div n) + 1, ((k - 1) % n) + 1>>]]

\* what a call of a summary or a metric gives: its value or exception, and
\* the warnings it gave
Outcome(result, warns) == [ret |-> result, warnings |-> warns]

\* faulty variant: fn is taken from the cell of fp
ConfusionMatrix_calculate_CellTwice(sc, classes, map) ==
    LET interpreted_values == Score_interpret(sc, NoCutoff)
        labels == SortedDesc({map[k] : k \in DOMAIN map})
    IN  IF interpreted_values.error # NoError
        THEN Outcome(Raised(interpreted_values.error), <<>>)
        ELSE LET cm == confusion_matrix(classes.values,
                                        interpreted_values.value.values, labels)
             IN  IF cm.error # NoError THEN Outcome(Raised(cm.error), <<>>)
                 ELSE LET flat == ravel(cm.value, Len(labels))
                          cells ==
                              IF Len(flat) = 4
                              THEN ("tn" :> flat[1]) @@ ("fp" :> flat[2]) @@
                                   ("fn" :> flat[2]) @@ ("tp" :> flat[4])
                              ELSE <<>>
                      IN  Outcome(Returned(cells @@ ("data" :> cm.value) @@
                                           ("pathogenicity_class_map" :> map) @@
                                           ("labels" :> labels)),
                                  <<>>)

\* summaries.py 31-61: the labels are the numbers of the classes, largest
\* first; "tn, fp, fn, tp = cm.ravel()" names the four cells of a matrix of two
\* classes in the order of ravel and fails for any other matrix, which is
\* swallowed by "except Exception: pass"; the method gives no warning
ConfusionMatrix_calculate(sc, classes, map) ==
    LET interpreted_values == Score_interpret(sc, NoCutoff)
        labels == SortedDesc({map[k] : k \in DOMAIN map})
    IN  IF interpreted_values.error # NoError
        THEN Outcome(Raised(interpreted_values.error), <<>>)
        ELSE LET cm == confusion_matrix(classes.values,
                                        interpreted_values.value.values, labels)
             IN  IF cm.error # NoError THEN Outcome(Raised(cm.error), <<>>)
                 ELSE LET flat == ravel(cm.value, Len(labels))
                          cells ==
                              IF Len(flat) = 4
                              THEN ("tn" :> flat[1]) @@ ("fp" :> flat[2]) @@
                                   ("fn" :> flat[3]) @@ ("tp" :> flat[4])
                              ELSE <<>>
                      IN  Outcome(Returned(cells @@ ("data" :> cm.value) @@
                                           ("pathogenicity_class_map" :> map) @@
                                           ("labels" :> labels)),
                                  <<>>)

\* sklearn.metrics.roc_curve and precision_recall_curve on (y_true, y_score):
\* ValueError unless the values of y_true are 0 and 1, only 0, or only 1; the
\* arrays of the curve are not modelled
binary_curve(y_true, keys) ==
    IF Range(y_true) \in {{0, 1}, {0}, {1}}
    THEN Returned([k \in keys |-> "ndarray"])
    ELSE Raised(Error("ValueError", "y_true", "", {}))

\* summaries.py 65-88
ROCCurve_calculate(sc, classes, map) ==
    IF Cardinality(DOMAIN map) > 2
    THEN Outcome(Returned(<<>>), <<"Can't calculate ROC curves for multiclass.">>)
    ELSE Outcome(binary_curve(classes.values, {"fpr", "tpr", "thresholds"}), <<>>)

\* summaries.py 96-119
PrecisionRecallCurve_calculate(sc, classes, map) ==
    IF Cardinality(DOMAIN map) > 2
    THEN Outcome(Returned(<<>>), <<"Can't calculate ROC curves for multiclass.">>)
    ELSE Outcome(binary_curve(classes.values, {"precision", "recall", "thresholds"}), <<>>)

\* a / b on two numpy integers: the quotient, nan together with a
\* RuntimeWarning when b is 0
Fraction(a, b) == [num |-> a, den |-> b]

divide(a, b, warns) ==
    Outcome(Returned(Fraction(a, b)),
            IF b = 0 THEN Append(warns, "RuntimeWarning") ELSE warns)

\* metrics.py 24-48: tp / (tp + fn) of the ConfusionMatrix of the default map
Sensitivity_calculate(sc, classes) ==
    LET o == ConfusionMatrix_calculate(sc, classes, default_pathogencity_class_map)
        cm == o.ret.value
    IN  IF o.ret.error # NoError THEN o
        ELSE IF ~({"tp", "fn"} \subseteq DOMAIN cm)
        THEN Outcome(Raised(Error("KeyError", "cell", "", {"tp"})), o.warnings)
        ELSE divide(cm["tp"], cm["tp"] + cm["fn"], o.warnings)

\* metrics.py 133-157: tn / (tn + fp) of the ConfusionMatrix of the default map
Specificity_calculate(sc, classes) ==
    LET o == ConfusionMatrix_calculate(sc, classes, default_pathogencity_class_map)
        cm == o.ret.value
    IN  IF o.ret.error # NoError THEN o
        ELSE IF ~({"tn", "fp"} \subseteq DOMAIN cm)
        THEN Outcome(Raised(Error("KeyError", "cell", "", {"tn"})), o.warnings)
        ELSE divide(cm["tn"], cm["tn"] + cm["fp"], o.warnings)

\* one Score and a ground truth of as many rows, the default map being the
\* map of a call that passes none
InitScore ==
    /\ \E n \in 0..MaxRows :
          \E data \in [1..n -> ScoreNumbers], truth \in [1..n -> ClassValues],
             c \in Cutoffs :
             /\ score = Score(CutoffPlugin("P1", c), Series(RangeIndex(n), data))
             /\ interpreted_classes = Series(RangeIndex(n), truth)
    /\ pathogenicity_class_map = default_pathogencity_class_map
    /\ cutoff = NoCutoff
    /\ called = "" /\ call_ret = NoReturn /\ warnings = <<>>
    /\ plugins = <<>> /\ variant_data = <<>>
    /\ cpu_count = 1 /\ ncpus = 1
    /\ with_flexible_plugins = FALSE
    /\ compat = Pending
    /\ tpc = Idle /\ traw = Idle /\ tres = Idle
    /\ pool = "none" /\ pc = "idle" /\ next_job = 1
    /\ plugin_results = <<>> /\ ret = NoReturn
    /\ MergeIdle /\ BuildIdle /\ RestIdle

\* the rest of the state, which no call of this stage touches
otherthanscore == <<plugins, variant_data, cpu_count, ncpus, with_flexible_plugins,
                    compat, tpc, traw, tres, pool, pc, next_job, plugin_results, ret,
                    mergevars, buildvars, restvars>>

\* score.interpret() and score.interpret(c)
Interpret ==
    /\ called = ""
    /\ \E c \in {NoCutoff} \cup {Scalar(x) : x \in ScoreNumbers} :
          /\ cutoff' = c
          /\ call_ret' = Score_interpret(score, c)
    /\ called' = "interpret"
    /\ UNCHANGED <<score, interpreted_classes, pathogenicity_class_map, warnings,
                   otherthanscore>>

\* ConfusionMatrix.calculate(score, interpreted_classes, pathogenicity_class_map)
ConfusionMatrixCalculate ==
    /\ called = ""
    /\ \E map \in ClassMaps :
          /\ pathogenicity_class_map' = map
          /\ call_ret' = ConfusionMatrix_calculate(score, interpreted_classes, map).ret
          /\ warnings' = ConfusionMatrix_calculate(score, interpreted_classes, map).warnings
    /\ called' = "Confusion Matrix"
    /\ UNCHANGED <<score, interpreted_classes, cutoff, otherthanscore>>

\* ROCCurve.calculate(score, interpreted_classes, pathogenicity_class_map)
ROCCurveCalculate ==
    /\ called = ""
    /\ \E map \in ClassMaps :
          /\ pathogenicity_class_map' = map
          /\ call_ret' = ROCCurve_calculate(score, interpreted_classes, map).ret
          /\ warnings' = ROCCurve_calculate(score, interpreted_classes, map).warnings
    /\ called' = "ROC Curve"
    /\ UNCHANGED <<score, interpreted_classes, cutoff, otherthanscore>>

\* PrecisionRecallCurve.calculate(score, interpreted_classes, pathogenicity_class_map)
PrecisionRecallCurveCalculate ==
    /\ called = ""
    /\ \E map \in ClassMaps :
          /\ pathogenicity_class_map' = map
          /\ call_ret' = PrecisionRecallCurve_calculate(score, interpreted_classes, map).ret
          /\ warnings' = PrecisionRecallCurve_calculate(score, interpreted_classes, map).warnings
    /\ called' = "Precision-Recall Curve"
    /\ UNCHANGED <<score, interpreted_classes, cutoff, otherthanscore>>

\* Sensitivity.calculate(score, interpreted_classes); a metric takes no map
SensitivityCalculate ==
    /\ called = ""
    /\ call_ret' = Sensitivity_calculate(score, interpreted_classes).ret
    /\ warnings' = Sensitivity_calculate(score, interpreted_classes).warnings
    /\ called' = "Sensitivity"
    /\ UNCHANGED <<score, interpreted_classes, pathogenicity_class_map, cutoff,
                   otherthanscore>>

\* Specificity.calculate(score, interpreted_classes)
SpecificityCalculate ==
    /\ called = ""
    /\ call_ret' = Specificity_calculate(score, interpreted_classes).ret
    /\ warnings' = Specificity_calculate(score, interpreted_classes).warnings
    /\ called' = "Specificity"
    /\ UNCHANGED <<score, interpreted_classes, pathogenicity_class_map, cutoff,
                   otherthanscore>>

NextScore ==
    \/ Interpret
    \/ ConfusionMatrixCalculate
    \/ ROCCurveCalculate
    \/ PrecisionRecallCurveCalculate
    \/ SensitivityCalculate
    \/ SpecificityCalculate

SpecScore == InitScore /\ [][NextScore]_vars

(***************************************************************************)
(* Properties of Score.interpret, the summaries and the metrics (SpecScore)*)
(***************************************************************************)
\* the cutoff a call of interpret works with
EffectiveCutoff == IF cutoff = NoCutoff THEN score.plugin.cutoff ELSE cutoff

ScoreData == score.data.values

\* C13: with a scalar cutoff c, interpret gives every value v the class 1 when
\* v > c and the class 0 when v <= c (so a value equal to c gets 0), a larger
\* score never gets a smaller class, and the call leaves the score series and
\* the plugin as they were.
C13_ScalarCutoffInterpret ==
    /\ [](called = "interpret" /\ EffectiveCutoff.kind = "float" =>
            /\ call_ret.error = NoError
            /\ call_ret.value.index = score.data.index
            /\ \A i \in 1..Len(ScoreData) :
                  /\ ScoreData[i] > EffectiveCutoff.values[1] => call_ret.value.values[i] = 1
                  /\ ScoreData[i] <= EffectiveCutoff.values[1] => call_ret.value.values[i] = 0
            /\ \A i, j \in 1..Len(ScoreData) :
                  ScoreData[i] <= ScoreData[j]
                  => call_ret.value.values[i] <= call_ret.value.values[j])
    /\ [][called' = "interpret" => score' = score]_vars

\* interpret has given a value equal to the cutoff the class 0 and a larger
\* value of the same series the class 1
C13_Witness ==
    /\ called = "interpret"
    /\ EffectiveCutoff.kind = "float"
    /\ call_ret.error = NoError
    /\ \E i, j \in 1..Len(ScoreData) :
          /\ ScoreData[i] = EffectiveCutoff.values[1] /\ call_ret.value.values[i] = 0
          /\ ScoreData[j] > EffectiveCutoff.values[1] /\ call_ret.value.values[j] = 1

\* the number of cutoffs of the list that the value exceeds: the index of the
\* interval the value falls in
Bucket(v, cs) == Cardinality({k \in 1..Len(cs) : v > cs[k]})

TwoClassTruth == Range(interpreted_classes.values) \subseteq {0, 1}

\* C14: with a list of increasing cutoffs, interpret gives every value the
\* index of the interval between the cutoffs it falls in, and the summaries
\* and metrics of a plugin with such a list are calculated without an
\* exception.
C14_ListCutoffBuckets ==
    /\ (called = "interpret" /\ EffectiveCutoff.kind = "list") =>
          /\ call_ret.error = NoError
          /\ \A i \in 1..Len(ScoreData) :
                call_ret.value.values[i] = Bucket(ScoreData[i], EffectiveCutoff.values)
    /\ (/\ called \in {"Confusion Matrix", "Sensitivity", "Specificity"}
        /\ score.plugin.cutoff.kind = "list"
        /\ TwoClassTruth)
       => call_ret.error = NoError

\* a summary or metric of two classes: the ground truth holds the classes 0
\* and 1, the map is the one of two classes, the plugin has one cutoff
TwoClassCall(name) ==
    /\ called = name
    /\ pathogenicity_class_map = default_pathogencity_class_map
    /\ TwoClassTruth
    /\ score.plugin.cutoff.kind = "float"

Cells == {"tn", "fp", "fn", "tp"}

\* C15: for a ground truth of two classes and a score series of the same
\* length, the four named cells of the confusion matrix add up to the number
\* of rows.
C15_CellsSumToRows ==
    TwoClassCall("Confusion Matrix") =>
        /\ call_ret.error = NoError
        /\ Cells \subseteq DOMAIN call_ret.value
        /\ call_ret.value["tp"] + call_ret.value["tn"] + call_ret.value["fp"]
              + call_ret.value["fn"] = Len(ScoreData)

\* the confusion matrix of two rows has been calculated, one of them a
\* pathogenic variant scored above the cutoff and one a benign variant scored
\* above the cutoff
C15_Witness ==
    /\ TwoClassCall("Confusion Matrix")
    /\ call_ret.error = NoError
    /\ Len(ScoreData) = 2
    /\ \A i \in 1..2 : ScoreData[i] > score.plugin.cutoff.values[1]
    /\ Range(interpreted_classes.values) = {0, 1}

\* the rows of class t in the ground truth that the cutoff gives class p
Count(t, p) ==
    Cardinality({r \in 1..Len(ScoreData) :
                    /\ interpreted_classes.values[r] = t
                    /\ (IF ScoreData[r] > score.plugin.cutoff.values[1] THEN 1 ELSE 0) = p})

\* the quotient f is a / b
SameFraction(f, a, b) == (f.den = 0 <=> b = 0) /\ f.num * b = a * f.den

\* C16: in the confusion matrix of two classes tp counts the rows of ground
\* truth 1 interpreted as 1, tn those of 0 interpreted as 0, fp those of 0
\* interpreted as 1, fn those of 1 interpreted as 0; Sensitivity is the
\* fraction of the rows of ground truth 1 that are interpreted as 1 and
\* Specificity the fraction of the rows of ground truth 0 interpreted as 0.
C16_NamedCellsStandard ==
    /\ TwoClassCall("Confusion Matrix") =>
          /\ call_ret.error = NoError
          /\ Cells \subseteq DOMAIN call_ret.value
          /\ call_ret.value["tp"] = Count(1, 1)
          /\ call_ret.value["tn"] = Count(0, 0)
          /\ call_ret.value["fp"] = Count(0, 1)
          /\ call_ret.value["fn"] = Count(1, 0)
    /\ TwoClassCall("Sensitivity") =>
          /\ call_ret.error = NoError
          /\ SameFraction(call_ret.value, Count(1, 1), Count(1, 1) + Count(1, 0))
    /\ TwoClassCall("Specificity") =>
          /\ call_ret.error = NoError
          /\ SameFraction(call_ret.value, Count(0, 0), Count(0, 0) + Count(0, 1))

\* C17: called for more than two classes, no summary raises: ConfusionMatrix
\* returns the matrix without the cells tn, fp, fn, tp and gives a warning,
\* ROCCurve and PrecisionRecallCurve return an empty result and give a
\* warning.
C17_MultiClassSummariesWarn ==
    (/\ called \in {"Confusion Matrix", "ROC Curve", "Precision-Recall Curve"}
     /\ Cardinality(DOMAIN pathogenicity_class_map) > 2)
    => /\ call_ret.error = NoError
       /\ warnings # <<>>
       /\ called = "Confusion Matrix" =>
             /\ "data" \in DOMAIN call_ret.value
             /\ Cells \cap DOMAIN call_ret.value = {}
       /\ called # "Confusion Matrix" => DOMAIN call_ret.value = {}

(***************************************************************************)
(* Properties of merge_annotaded_variant_and_evaluation_data (SpecMerge)   *)
(***************************************************************************)
\* every score series of the result has the index of the interpreted classes:
\* the same rows in the same order
SameRows(result) ==
    /\ Len(result.scores) = Len(plugins)
    /\ \A i \in 1..Len(result.scores) :
          /\ result.scores[i].plugin = plugins[i]
          /\ result.scores[i].data.index = result.new_interpreted_classes.index
          /\ Len(result.scores[i].data.values) =
                Len(result.new_interpreted_classes.values)

\* C18: under each of the three policies for missing data the call returns,
\* for every plugin, a score series that covers the same rows in the same
\* order as the interpreted ground truth.
C18_SameRowsForAllPlugins ==
    merge_ret.error # Pending =>
        /\ merge_ret.error = NoError
        /\ SameRows(merge_ret.value)

\* C18 as amended: the same, for annotated variant data that has the column
\* <plugin name>_SCORE of every plugin of its list.
C18_SameRowsGivenScoreColumns ==
    (/\ merge_ret.error # Pending
     /\ OneScoreColumnPerPlugin(annotated_variants.value))
    => /\ merge_ret.error = NoError
       /\ SameRows(merge_ret.value)

\* under the deletion policy the variant for which one of two plugins has a
\* null score was dropped from the ground truth and from both score series
C18_Witness ==
    /\ merge_ret.error = NoError
    /\ how_to_handle_with_missing_values = "Deletion"
    /\ Len(plugins) = 2
    /\ Len(variant_data) = 2
    /\ traw[1] = Scored(variant_data, "0.5")
    /\ traw[2] = LastNull(Scored(variant_data, "0.5"))
    /\ merge_ret.value.new_interpreted_classes.index = <<0>>

(***************************************************************************)
(* PluginBuilder: from a manifest to a Plugin                              *)
(***************************************************************************)
\* dict.get(key, default)
Get(d, key, default) == IF key \in DOMAIN d THEN d[key] ELSE default

\* a dict without one of its keys
Without(d, key) == [k \in DOMAIN d \ {key} |-> d[k]]

\* str.lower() on the tokens the manifests of the model use
Lower(s) ==
    CASE s = "SNP" -> "snp"
      [] s = "GRCh37" -> "grch37"
      [] s = "HG38" -> "hg38"
      [] s = "Python" -> "python"
      [] s = "Docker" -> "docker"
      [] OTHER -> s

\* str.strip() on the tokens the manifests of the model use
Strip(s) ==
    CASE s = " indel" -> "indel"
      [] s = "HG38 " -> "HG38"
      [] OTHER -> s

\* str.split(",") on the tokens the manifests of the model use
Split(s) ==
    CASE s = "SNP, indel" -> <<"SNP", " indel">>
      [] OTHER -> <<s>>

\* a value of supported-variations: one comma separated string, or a list
Str(text) == [type |-> "str", text |-> text, items |-> <<>>]
List(items) == [type |-> "list", text |-> "", items |-> items]

\* the manifest path that api.load_plugin stores under "path"
ManifestPath == "plugins/p1/manifest.yaml"

\* the paths next to the manifest that exist on disk
ExistingFiles == {"entrypoint.py", "data"}

IOInfo == ("format" :> "CSV") @@ ("file-path" :> "/io.csv")

FullDocker ==
    ("mode" :> "Docker") @@ ("image" :> "img") @@ ("run" :> "cmd")
        @@ ("input" :> IOInfo) @@ ("output" :> IOInfo)

\* the entry-point sections: without mode; local script with and without
\* file; an unknown mode; container with and without its keys and bindings
EntryPointSections ==
    {("file" :> "entrypoint.py")}
    \cup {("mode" :> m) @@ ("file" :> f) :
             m \in {"python", "Python", "singularity"},
             f \in {"entrypoint.py", "missing.py"}}
    \cup {("mode" :> m) @@ ("image" :> "img") : m \in {"python", "singularity"}}
    \cup {FullDocker}
    \cup {Without(FullDocker, k) : k \in {"image", "input", "output", "run"}}
    \cup {[FullDocker EXCEPT !["input"] = Without(IOInfo, "format")],
          [FullDocker EXCEPT !["output"] = Without(IOInfo, "file-path")]}
    \cup {FullDocker @@ ("bindings" :> <<b>>) : b \in {"data", "nodata"}}

SupportedVariationsValues == {Str("SNP, indel"), Str("snv"), List(<<"indel">>)}

ReferenceGenomeValues == {"GRCh37", "HG38 ", "hg99"}

\* the cutoff of a manifest, in tenths: a number; a list of three increasing
\* thresholds; an unordered list; a list with equal neighbours; a list of two
ManifestCutoffs ==
    {Scalar(7), CutoffList(<<1, 5, 9>>), CutoffList(<<5, 1, 9>>),
     CutoffList(<<1, 1, 9>>), CutoffList(<<1, 5>>)}

ManifestKeys ==
    {"name", "supported-variations", "reference-genome", "entry-point", "cutoff",
     "unsupported-chromosomes"}

\* the manifests yaml.safe_load gives, with the path api.load_plugin adds
Manifests ==
    {("path" :> ManifestPath) @@
        [k \in ks |->
            CASE k = "name" -> "P1"
              [] k = "supported-variations" -> v
              [] k = "reference-genome" -> g
              [] k = "entry-point" -> e
              [] k = "cutoff" -> c
              [] OTHER -> <<"X">>] :
        ks \in SUBSET ManifestKeys, v \in SupportedVariationsValues,
        g \in ReferenceGenomeValues, e \in EntryPointSections,
        c \in ManifestCutoffs}

\* the first key of the list that the dict lacks, "" when it has them all
FirstMissing(keys, d) ==
    LET absent == {i \in 1..Len(keys) : keys[i] \notin DOMAIN d}
    IN IF absent = {} THEN ""
       ELSE keys[CHOOSE i \in absent : \A j \in absent : i <= j]

MandatoryKeys == <<"name", "supported-variations", "reference-genome", "entry-point">>

DockerKeys == <<"image", "input", "output", "run">>

\* the pairs the nested loops of validate_entry_point visit, in their order
InputOutputKeys ==
    <<<<"input", "format">>, <<"input", "file-path">>,
      <<"output", "format">>, <<"output", "file-path">>>>

\* validate_mandatory_keys without "entry-point" in its list
validate_mandatory_keys_WithoutEntryPoint(manifest_) ==
    LET key == FirstMissing(SubSeq(MandatoryKeys, 1, 3), manifest_)
    IN IF key = "" THEN NoError
       ELSE Error("RuntimeError", "mandatory key", "", {key, manifest_["path"]})

\* PluginBuilder.validate_mandatory_keys: NoError, or the error it raises
validate_mandatory_keys(manifest_) ==
    LET key == FirstMissing(MandatoryKeys, manifest_)
    IN IF key = "" THEN NoError
       ELSE Error("RuntimeError", "mandatory key", "", {key, manifest_["path"]})

\* validate_entry_point without its else branch
validate_entry_point_WithoutElse(manifest_) ==
    IF "entry-point" \notin DOMAIN manifest_
    THEN Error("KeyError", "entry-point", "", {"entry-point"})
    ELSE
    LET entry_point == manifest_["entry-point"]
        path == manifest_["path"]
    IN IF "mode" \notin DOMAIN entry_point
       THEN Error("RuntimeError", "entry-point mode", "", {"mode", path})
       ELSE IF Lower(entry_point["mode"]) = "docker"
       THEN LET key == FirstMissing(DockerKeys, entry_point)
                absent == {i \in 1..Len(InputOutputKeys) :
                              InputOutputKeys[i][2] \notin
                                  DOMAIN entry_point[InputOutputKeys[i][1]]}
                first == CHOOSE i \in absent : \A j \in absent : i <= j
            IN IF key # ""
               THEN Error("RuntimeError", "Docker key", "", {key, path})
               ELSE IF absent # {}
               THEN Error("RuntimeError", "Docker key", "",
                          {InputOutputKeys[first][1] \o "/" \o InputOutputKeys[first][2],
                           path})
               ELSE NoError
       ELSE IF Lower(entry_point["mode"]) = "python"
       THEN IF "file" \notin DOMAIN entry_point
            THEN Error("RuntimeError", "Python key", "", {"file", path})
            ELSE NoError
       ELSE NoError

\* PluginBuilder.validate_entry_point: NoError, or the error it raises
validate_entry_point(manifest_) ==
    IF "entry-point" \notin DOMAIN manifest_
    THEN Error("KeyError", "entry-point", "", {"entry-point"})
    ELSE
    LET entry_point == manifest_["entry-point"]
        path == manifest_["path"]
    IN IF "mode" \notin DOMAIN entry_point
       THEN Error("RuntimeError", "entry-point mode", "", {"mode", path})
       ELSE IF Lower(entry_point["mode"]) = "docker"
       THEN LET key == FirstMissing(DockerKeys, entry_point)
                absent == {i \in 1..Len(InputOutputKeys) :
                              InputOutputKeys[i][2] \notin
                                  DOMAIN entry_point[InputOutputKeys[i][1]]}
                first == CHOOSE i \in absent : \A j \in absent : i <= j
            IN IF key # ""
               THEN Error("RuntimeError", "Docker key", "", {key, path})
               ELSE IF absent # {}
               THEN Error("RuntimeError", "Docker key", "",
                          {InputOutputKeys[first][1] \o "/" \o InputOutputKeys[first][2],
                           path})
               ELSE NoError
       ELSE IF Lower(entry_point["mode"]) = "python"
       THEN IF "file" \notin DOMAIN entry_point
            THEN Error("RuntimeError", "Python key", "", {"file", path})
            ELSE NoError
       ELSE Error("RuntimeError", "unknown mode", "", {entry_point["mode"], path})

\* the entry point objects; build_entry_point falls off its end for a mode
\* that is neither, which returns None
DockerEntryPoint(image, run_command, input, output, bindings) ==
    [class |-> "DockerEntryPoint", image |-> image, run_command |-> run_command,
     input |-> input, output |-> output, bindings |-> bindings]
PythonEntryPoint(file_path) == [class |-> "PythonEntryPoint", file_path |-> file_path]
None == [class |-> "NoneType"]

\* PluginBuilder.build_docker_entry_point
build_docker_entry_point(manifest_) ==
    LET entry_point == manifest_["entry-point"]
        bindings == Get(entry_point, "bindings", <<>>)
        absent == {i \in 1..Len(bindings) : bindings[i] \notin ExistingFiles}
    IN IF absent # {}
       THEN Raised(Error("RuntimeError", "binding does not exist", manifest_["name"],
                         {bindings[CHOOSE i \in absent : \A j \in absent : i <= j]}))
       ELSE Returned(DockerEntryPoint(entry_point["image"], entry_point["run"],
                                      entry_point["input"], entry_point["output"],
                                      bindings))

\* PluginBuilder.build_python_entry_point
build_python_entry_point(manifest_) ==
    LET entry_point_file == manifest_["entry-point"]["file"]
    IN IF entry_point_file \notin ExistingFiles
       THEN Raised(Error("RuntimeError", "entry point file does not exist",
                         manifest_["name"], {entry_point_file}))
       ELSE Returned(PythonEntryPoint(entry_point_file))

\* PluginBuilder.build_entry_point
build_entry_point(manifest_) ==
    LET mode == manifest_["entry-point"]["mode"]
    IN IF Lower(mode) = "docker" THEN build_docker_entry_point(manifest_)
       ELSE IF Lower(mode) = "python" THEN build_python_entry_point(manifest_)
       ELSE Returned(None)

\* VariationType.resolve: the member, or the ValueError of the enumeration
VariationType_resolve(name) ==
    IF Lower(name) \in VariationType THEN Returned(Lower(name))
    ELSE Raised(Error("ValueError", "not a valid VariationType", "", {Lower(name)}))

\* ReferenceGenome.resolve
ReferenceGenome_resolve(name) ==
    LET lowered == Lower(name)
    IN IF lowered = "grch38" THEN Returned("hg38")
       ELSE IF lowered = "grch37" THEN Returned("hg19")
       ELSE IF lowered \in ReferenceGenome THEN Returned(lowered)
       ELSE Raised(Error("RuntimeError", "can't resolve reference genome", "",
                         {lowered}))

\* the Plugin object built from a manifest
BuiltPlugin(name, variations, chroms, genome, entry_point, cutoff_, manifest_path) ==
    [name |-> name, supported_variations |-> variations,
     supported_chromosomes |-> chroms, reference_genome |-> genome,
     entry_point |-> entry_point, cutoff |-> cutoff_, manifest_path |-> manifest_path]

\* PluginBuilder.build_plugin(**kwargs)
build_plugin(kwargs) ==
    LET mandatory == validate_mandatory_keys(kwargs)
        entry == validate_entry_point(kwargs)
        given == kwargs["supported-variations"]
        supported_variations == IF given.type = "str" THEN Split(given.text)
                                ELSE given.items
        resolved == [i \in 1..Len(supported_variations) |->
                        VariationType_resolve(Strip(supported_variations[i]))]
        failed == {i \in 1..Len(resolved) : resolved[i].error # NoError}
        reference_genome == ReferenceGenome_resolve(Lower(Strip(kwargs["reference-genome"])))
        entry_point == build_entry_point(kwargs)
        unsupported_chromosomes == Get(kwargs, "unsupported-chromosomes", <<>>)
    IN IF mandatory # NoError THEN Raised(mandatory)
       ELSE IF entry # NoError THEN Raised(entry)
       ELSE IF failed # {}
       THEN Raised(resolved[CHOOSE i \in failed : \A j \in failed : i <= j].error)
       ELSE IF reference_genome.error # NoError THEN Raised(reference_genome.error)
       ELSE IF entry_point.error # NoError THEN Raised(entry_point.error)
       ELSE Returned(BuiltPlugin(
                kwargs["name"],
                {resolved[i].value : i \in 1..Len(resolved)},
                Chromosomes \ {unsupported_chromosomes[i] :
                                  i \in 1..Len(unsupported_chromosomes)},
                reference_genome.value,
                entry_point.value,
                Get(kwargs, "cutoff", Scalar(5)),
                kwargs["path"]))

\* a manifest is loaded and handed to the builder
InitBuild ==
    /\ manifest \in Manifests
    /\ built = NoReturn /\ invoked = NoReturn /\ loaded = NoReturn
    /\ plugins = <<>> /\ variant_data = <<>>
    /\ cpu_count = 1 /\ ncpus = 1
    /\ with_flexible_plugins = FALSE
    /\ compat = Pending
    /\ tpc = Idle /\ traw = Idle /\ tres = Idle
    /\ pool = "none" /\ pc = "idle" /\ next_job = 1
    /\ plugin_results = <<>> /\ ret = NoReturn
    /\ MergeIdle /\ ScoreIdle /\ RestIdle

\* the rest of the state, which building a plugin does not touch
otherthanbuild == <<plugins, variant_data, cpu_count, ncpus, with_flexible_plugins,
                    compat, tpc, traw, tres, pool, pc, next_job, plugin_results, ret,
                    mergevars, scorevars, restvars>>

\* PluginBuilder.build_plugin(**manifest)
BuildPlugin ==
    /\ built.error = Pending
    /\ built' = build_plugin(manifest)
    /\ UNCHANGED <<manifest, invoked, loaded, otherthanbuild>>

\* Plugin.run of the built plugin reaches self.entry_point.run(...): None has
\* no attribute run
EntryPointRun ==
    /\ built.error = NoError
    /\ invoked.error = Pending
    /\ invoked' = IF built.value.entry_point.class = "NoneType"
                  THEN Raised(Error("AttributeError", "entry point",
                                    built.value.name, {"run"}))
                  ELSE Returned(NoTable)
    /\ UNCHANGED <<manifest, built, loaded, otherthanbuild>>

NextBuild == BuildPlugin \/ EntryPointRun

SpecBuild == InitBuild /\ [][NextBuild]_vars

(***************************************************************************)
(* Properties of the builder (SpecBuild)                                   *)
(***************************************************************************)
\* the mandatory keys the manifest lacks: the four of the top level, and the
\* mode of a present entry-point
MissingKeys ==
    {MandatoryKeys[i] : i \in {j \in 1..Len(MandatoryKeys) :
                                  MandatoryKeys[j] \notin DOMAIN manifest}}
    \cup (IF /\ "entry-point" \in DOMAIN manifest
             /\ "mode" \notin DOMAIN manifest["entry-point"]
          THEN {"mode"} ELSE {})

\* C19: building a plugin from a manifest that lacks a mandatory key (name,
\* supported-variations, reference-genome, entry-point, the mode of the
\* entry-point) fails with an error whose message names a missing key and
\* the path of the manifest, and no Plugin is produced.
C19_MissingKeyNamedWithPath ==
    (built.error # Pending /\ MissingKeys # {})
    => /\ built.error # NoError
       /\ built.value = NoTable
       /\ \E key \in MissingKeys : built.error.values = {key, ManifestPath}

\* the manifest has everything but the mode of its entry-point, and the
\* failure names "mode" and the path
C19_Witness ==
    /\ MissingKeys = {"mode"}
    /\ built.error.type = "RuntimeError"
    /\ built.error.values = {"mode", ManifestPath}

\* the manifest names a mode that is neither python nor docker in any case
UnknownMode ==
    /\ "entry-point" \in DOMAIN manifest
    /\ "mode" \in DOMAIN manifest["entry-point"]
    /\ Lower(manifest["entry-point"]["mode"]) \notin {"python", "docker"}

\* C20: a manifest whose entry-point mode is neither python nor docker is
\* rejected when the plugin is built; the builder never returns a Plugin
\* whose entry point is missing or of an unknown mode, so the failure never
\* first appears when the plugin is invoked.
C20_UnknownModeRejectedAtBuild ==
    /\ (built.error # Pending /\ UnknownMode) => built.error.type = "RuntimeError"
    /\ built.error = NoError =>
          /\ built.value.entry_point.class \in {"PythonEntryPoint", "DockerEntryPoint"}
          /\ ~UnknownMode
    /\ invoked.error.type # "AttributeError"

\* a complete manifest with the mode singularity was rejected for its mode
C20_Witness ==
    /\ MissingKeys = {}
    /\ UnknownMode
    /\ built.error.kind = "unknown mode"
    /\ built.error.values = {"singularity", ManifestPath}

\* predicates.py 22-36: isinstance(plugin.cutoff, list) and len(plugin.cutoff) > 2
is_multiclass_plugin(plugin) ==
    plugin.cutoff.kind = "list" /\ Len(plugin.cutoff.values) > 2

\* C30: every Plugin that was built with a list as its cutoff has a strictly
\* increasing list of at least three thresholds; a manifest whose list is
\* unordered, has equal neighbours or is shorter yields no Plugin.
C30_BuiltListCutoffIsOrdered ==
    (built.error = NoError /\ built.value.cutoff.kind = "list")
    => /\ is_multiclass_plugin(built.value)
       /\ StrictlyIncreasing(built.value.cutoff.values)

(***************************************************************************)
(* api.load_plugin, api.load_plugins, api.extract_evaluation_data and      *)
(* api.run_pipeline                                                        *)
(***************************************************************************)
\* cls.build_plugin(*args, **kwargs) on the signature build_plugin(cls,
\* **kwargs): a positional argument has no parameter to go to
build_plugin_call(args, kwargs) ==
    IF Len(args) > 0
    THEN Raised(Error("TypeError", "takes 1 positional argument", "", {}))
    ELSE build_plugin(kwargs)

\* api.load_plugin: the document of the manifest file, with its path added
load_plugin(document, flexible) ==
    build_plugin_call(<<flexible>>, ("path" :> ManifestPath) @@ document)

\* a manifest that has all the builder asks for
CompleteManifest(name, entry_point) ==
    ("path" :> ManifestPath) @@ ("name" :> name)
        @@ ("supported-variations" :> Str("SNP, indel"))
        @@ ("reference-genome" :> "GRCh37") @@ ("entry-point" :> entry_point)

PythonManifest ==
    CompleteManifest("P1", ("mode" :> "python") @@ ("file" :> "entrypoint.py"))

DockerManifest == CompleteManifest("P2", FullDocker)

\* the manifests a plugin directory of the model holds: a local script, a
\* container, and one that lacks its entry-point
DirectoryManifests ==
    {PythonManifest, DockerManifest, Without(PythonManifest, "entry-point")}

Directories == SeqsUpTo(DirectoryManifests, MaxPlugins)

\* the selection functions: none given, accept all, accept none, accept P1
Selections == {"None", "all", "none", "P1"}

\* filter(function, iterable); filter(None, ...) keeps the elements that are
\* true, and every Plugin object is
filter(function, list) ==
    SelectSeq(list, LAMBDA plugin :
                       CASE function = "None" -> TRUE
                         [] function = "all" -> TRUE
                         [] function = "none" -> FALSE
                         [] OTHER -> plugin.name = function)

\* api.load_plugins: a manifest that fails to load gives a warning
load_plugins(manifests, plugin_selection, flexible) ==
    LET loads == [i \in 1..Len(manifests) |-> load_plugin(manifests[i], flexible)]
        good == SelectSeq([i \in 1..Len(manifests) |-> i],
                          LAMBDA i : loads[i].error = NoError)
        bad == SelectSeq([i \in 1..Len(manifests) |-> i],
                         LAMBDA i : loads[i].error # NoError)
        found_plugins == [k \in 1..Len(good) |-> loads[good[k]].value]
    IN  Outcome(Returned(filter(plugin_selection, found_plugins)),
                [k \in 1..Len(bad) |-> "Can't load plugin"])

\* what an extractor reads from a record of the input file: the chromosome as
\* the file names it, and the variation type
RecordValues ==
    {[CHROM |-> "1", TYPE |-> "snp", RG |-> "hg19", CLASS |-> "benign"],
     [CHROM |-> "Un", TYPE |-> "snp", RG |-> "hg19", CLASS |-> "pathogenic"],
     [CHROM |-> "1", TYPE |-> "sv", RG |-> "hg19", CLASS |-> "benign"]}

\* an input file: one the extractor cannot parse, or its records
InputFile(parsable, records) == [parsable |-> parsable, records |-> records]

InputFiles ==
    {InputFile(FALSE, <<>>)}
    \cup {InputFile(TRUE, records) : records \in SeqsUpTo(RecordValues, MaxRows)}

\* EvaluationData.from_records: the records with the UIDs 0, 1, ...
from_records(records) ==
    [r \in 1..Len(records) |->
        [UID |-> r - 1, CHROM |-> records[r].CHROM, TYPE |-> records[r].TYPE,
         RG |-> records[r].RG, CLASS |-> records[r].CLASS]]

\* EvaluationData.validate: NoError, or the SchemaErrors it raises
EvaluationData_validate(table) ==
    IF \A r \in 1..Len(table) :
          /\ table[r].CHROM \in Chromosomes
          /\ table[r].TYPE \in VariationType
          /\ table[r].RG \in ReferenceGenome
          /\ table[r].CLASS \in PathogencityClass
          /\ table[r].UID >= 0
    THEN NoError
    ELSE Error("SchemaErrors", "evaluation data", "", {})

\* Extractor.extract: what _extract gave is returned as it is
extract(file) ==
    IF ~file.parsable
    THEN Raised(Error("RuntimeError", "can't parse data", "", {}))
    ELSE Returned(from_records(file.records))

\* api.extract_evaluation_data
extract_evaluation_data(file) == extract(file)

\* EvaluationData.variant_data
variant_data_of(table) ==
    [r \in 1..Len(table) |->
        [UID |-> table[r].UID, CHROM |-> table[r].CHROM, TYPE |-> table[r].TYPE,
         RG |-> table[r].RG]]

\* the float of a score cell, in tenths
float_tenths(v) ==
    CASE v = "0.0" -> 0
      [] v = "0.5" -> 5
      [] v = "1.0" -> 10

\* a Score whose data are the floats of the cells
numeric(sc) ==
    Score(sc.plugin,
          Series(sc.data.index,
                 [i \in 1..Len(sc.data.values) |-> float_tenths(sc.data.values[i])]))

\* api.invoke_methods as one call: each plugin's run (compatibility check,
\* entry point, validation of its output), the results in the order of the
\* list, the first failure of that order raised
invoke_methods(plugin_list, table, count, cpus, outputs) ==
    LET run[i \in 1..Len(plugin_list)] ==
            LET checked == AfterCheck(plugin_list[i], table)
            IN  IF checked.pc = "raised" THEN checked.result
                ELSE AfterValidate(plugin_list[i], table, outputs[i]).result
        failed == {i \in 1..Len(plugin_list) : run[i].error # NoError}
    IN  IF PoolSize(count, cpus) < 1
        THEN Raised(Error("ValueError", "pool", "", {}))
        ELSE IF failed # {}
        THEN Raised(run[CHOOSE i \in failed : \A j \in failed : i <= j].error)
        ELSE Returned(from_results(DataFrame(VariantColumns, table),
                                   [i \in 1..Len(plugin_list) |->
                                       [plugin |-> plugin_list[i],
                                        scores |-> run[i].value]]))

\* the reports run_pipeline is asked for
Reporting == <<"Sensitivity", "Specificity">>

\* report.calculate(score, interpreted_classes)
report_calculate(name, sc, classes) ==
    IF name = "Sensitivity" THEN Sensitivity_calculate(numeric(sc), classes)
    ELSE Specificity_calculate(numeric(sc), classes)

\* api.py 247-249 with _calculate_metric_or_summary: per report, per plugin,
\* the result; the first calculation that raises ends the loops
calculate_reports(new_scores, classes, reporting) ==
    LET rv == [r \in 1..Len(reporting) |->
                  [i \in 1..Len(new_scores) |->
                      report_calculate(reporting[r], new_scores[i], classes).ret]]
        failed == {<<r, i>> \in (1..Len(reporting)) \X (1..Len(new_scores)) :
                      rv[r][i].error # NoError}
        first == CHOOSE f \in failed :
                    \A g \in failed : f[1] < g[1] \/ (f[1] = g[1] /\ f[2] <= g[2])
    IN  IF failed # {} THEN Raised(rv[first[1]][first[2]].error)
        ELSE Returned([r \in 1..Len(reporting) |->
                          [i \in 1..Len(new_scores) |-> rv[r][i].value]])

\* api.py 246-249: the reports of what the merge returned
reports_of(merged_, reporting) ==
    IF merged_.error # NoError THEN Raised(merged_.error)
    ELSE calculate_reports(merged_.value.scores,
                           merged_.value.new_interpreted_classes, reporting)

\* api.calculate_metrics_and_summaries
calculate_metrics_and_summaries(avd, evaluation_table, reporting) ==
    reports_of(merge_annotaded_variant_and_evaluation_data(avd, evaluation_table,
                                                           "Deletion"),
               reporting)

\* PerformanceReport(evaluation_data, annotated_variants, reports)
PerformanceReport(evaluation_table, avd, reports) ==
    [data |-> merge(avd.annotated_variant_data,
                    DataFrame(<<"UID", "CLASS">>,
                              [r \in 1..Len(evaluation_table) |->
                                  [UID |-> evaluation_table[r].UID,
                                   CLASS |-> evaluation_table[r].CLASS]])),
     metrics_and_summaries |-> reports,
     plugins |-> avd.plugins]

\* faulty variant: the check of line 282 never finds the list empty
no_plugins_Never(plugin_list) == FALSE

\* run_pipeline line 282: len(plugins) == 0
no_plugins(plugin_list) == Len(plugin_list) = 0

\* run_pipeline(with_data, reporting, using, plugin_path=directory, cpu_count)
\* is called; load_plugin(manifest) is called by itself
InitPipeline ==
    /\ directory \in Directories
    /\ manifest \in (IF directory = <<>> THEN {PythonManifest} ELSE Range(directory))
    /\ using \in Selections
    /\ with_data \in InputFiles
    /\ \E call \in {<<-1, 1>>, <<-1, MaxCpus>>} : cpu_count = call[1] /\ ncpus = call[2]
    /\ with_flexible_plugins = FALSE
    /\ built = NoReturn /\ invoked = NoReturn /\ loaded = NoReturn
    /\ found = NoReturn /\ extracted = NoReturn
    /\ rpc = "start" /\ report = NoReturn
    /\ plugins = <<>> /\ variant_data = <<>>
    /\ compat = Pending
    /\ tpc = Idle /\ traw = Idle /\ tres = Idle
    /\ pool = "none" /\ pc = "idle" /\ next_job = 1
    /\ plugin_results = <<>> /\ ret = NoReturn
    /\ MergeIdle /\ ScoreIdle /\ DockerIdle

\* the state a pipeline run leaves alone
otherthanpipeline ==
    <<cpu_count, ncpus, with_flexible_plugins, compat, tpc, tres, pool, pc, next_job,
      plugin_results, mergevars, score, interpreted_classes, pathogenicity_class_map,
      cutoff, called, call_ret, manifest, built, invoked, directory, using, with_data,
      dockervars>>

\* load_plugin(manifest_path)
LoadPlugin ==
    /\ loaded.error = Pending
    /\ loaded' = load_plugin(manifest, with_flexible_plugins)
    /\ UNCHANGED <<otherthanpipeline, plugins, variant_data, traw, ret, warnings,
                   found, extracted, rpc, report>>

\* run_pipeline line 280
PipelineExtract ==
    /\ rpc = "start"
    /\ extracted' = extract_evaluation_data(with_data)
    /\ IF extracted'.error # NoError
       THEN rpc' = "raised" /\ report' = Raised(extracted'.error)
       ELSE rpc' = "load" /\ UNCHANGED report
    /\ UNCHANGED <<otherthanpipeline, plugins, variant_data, traw, ret, warnings,
                   found, loaded>>

\* run_pipeline line 281
PipelineLoadPlugins ==
    /\ rpc = "load"
    /\ LET o == load_plugins(directory, using, with_flexible_plugins)
       IN  found' = o.ret /\ warnings' = o.warnings
    /\ rpc' = "check"
    /\ UNCHANGED <<otherthanpipeline, plugins, variant_data, traw, ret,
                   extracted, loaded, report>>

\* run_pipeline lines 282-292: no plugins is an error; else the methods are
\* invoked, the reports calculated and the PerformanceReport returned
PipelineFinish ==
    /\ rpc = "check"
    /\ IF no_plugins(found.value)
       THEN /\ report' = Raised(Error("RuntimeError", "Can' find plugins", "", {}))
            /\ UNCHANGED <<plugins, variant_data, traw, ret>>
       ELSE \E outputs \in [1..Len(found.value) ->
                               InvokeOutputs(variant_data_of(extracted.value))] :
            \E annotated \in {invoke_methods(found.value,
                                             variant_data_of(extracted.value),
                                             cpu_count, ncpus, outputs)} :
               /\ plugins' = found.value
               /\ variant_data' = variant_data_of(extracted.value)
               /\ traw' = outputs
               /\ ret' = annotated
               /\ IF annotated.error # NoError
                  THEN report' = Raised(annotated.error)
                  ELSE \E reports \in {calculate_metrics_and_summaries(
                                          annotated.value, extracted.value, Reporting)} :
                          report' = IF reports.error # NoError
                                    THEN Raised(reports.error)
                                    ELSE Returned(PerformanceReport(
                                             extracted.value, annotated.value,
                                             reports.value))
    /\ rpc' = IF report'.error = NoError THEN "returned" ELSE "raised"
    /\ UNCHANGED <<otherthanpipeline, warnings, found, extracted, loaded>>

NextPipeline ==
    \/ LoadPlugin
    \/ PipelineExtract
    \/ PipelineLoadPlugins
    \/ PipelineFinish

SpecPipeline == InitPipeline /\ [][NextPipeline]_vars

(***************************************************************************)
(* Properties of loading and of the pipeline (SpecPipeline)                *)
(***************************************************************************)
\* the manifest has all mandatory keys, a known mode with the keys of that
\* mode, and its files exist: the builder makes a Plugin of it
Buildable(document) == build_plugin(document).error = NoError

EntryPointSet(plugin) ==
    plugin.entry_point.class \in {"PythonEntryPoint", "DockerEntryPoint"}

\* the names of the plugins of the directory that the selection accepts
AcceptedNames ==
    {document["name"] :
        document \in {d \in Range(directory) :
                         /\ Buildable(d)
                         /\ Len(filter(using, <<build_plugin(d).value>>)) = 1}}

\* C21: load_plugin on a manifest with all mandatory keys, a known mode and
\* the keys and files of that mode returns a Plugin with the name of the
\* manifest and an entry point; load_plugins returns every such plugin of the
\* directory that the selection accepts, all of them without a selection.
C21_LoadReturnsPlugins ==
    /\ (loaded.error # Pending /\ Buildable(manifest))
       => /\ loaded.error = NoError
          /\ loaded.value.name = manifest["name"]
          /\ EntryPointSet(loaded.value)
    /\ found.error # Pending
       => {found.value[i].name : i \in 1..Len(found.value)} = AcceptedNames

Ended_pipeline == rpc \in {"returned", "raised"}

\* C22: whenever the selection leaves no plugin, run_pipeline raises, and it
\* does so before invoke_methods is called, before any entry point gave an
\* output and before a report exists.
C22_NoPluginsRaisesBeforeInvocation ==
    (Ended_pipeline /\ found.error = NoError /\ Len(found.value) = 0)
    => /\ report.error.type = "RuntimeError"
       /\ report.error.kind = "Can' find plugins"
       /\ ret = NoReturn
       /\ traw = Idle

\* the selection that accepts no plugin on a directory with a manifest: the
\* pipeline raised for want of plugins
C22_Witness ==
    /\ rpc = "raised"
    /\ using = "none"
    /\ Len(directory) > 0
    /\ extracted.error = NoError
    /\ Len(found.value) = 0
    /\ report.error.kind = "Can' find plugins"

\* C23: in every run the extracted evaluation data has passed
\* EvaluationData.validate (chromosomes and variation types within their
\* vocabularies) when extraction returns, hence before any entry point runs.
C23_ExtractedDataIsValidated ==
    /\ extracted.error = NoError => EvaluationData_validate(extracted.value) = NoError
    /\ traw # Idle => EvaluationData_validate(extracted.value) = NoError

(***************************************************************************)
(* Properties of the pool of invoke_methods (Spec)                         *)
(***************************************************************************)
\* C24: invoke_methods returns, with a result or with an error, only after
\* every task it dispatched has completed: when it has returned no plugin
\* task is still queued or still running.
C24_ReturnsAfterAllTasks ==
    Ended => \A i \in DOMAIN tpc : tpc[i] # "queued" /\ ~Running(i)

\* the score the entry point of plugin i gave the variant u
OutputScore(i, u) ==
    LET r == CHOOSE k \in 1..Len(traw[i].rows) : traw[i].rows[k]["UID"] = u
    IN  traw[i].rows[r]["SCORE"]

\* C25: for plugins of pairwise distinct names the AnnotatedVariantData that
\* invoke_methods returns is fixed by the plugin list, the variant table and
\* what each plugin's entry point gives for that table: its plugin list is
\* the input list, its score columns follow the variant columns in the order
\* of the list, and each cell is the score that plugin gave that variant;
\* neither the order in which the tasks complete nor the pool size enters.
C25_ResultIndependentOfCompletionOrder ==
    ret.error = NoError =>
        LET avd == ret.value
            table == avd.annotated_variant_data
        IN  /\ avd.plugins = plugins
            /\ table.columns =
                  VariantColumns \o [i \in 1..Len(plugins) |-> score_column_name(plugins[i])]
            /\ Len(table.rows) = Len(variant_data)
            /\ \A r \in 1..Len(table.rows) :
                  /\ \A c \in Range(VariantColumns) : table.rows[r][c] = variant_data[r][c]
                  /\ \A i \in 1..Len(plugins) :
                        table.rows[r][score_column_name(plugins[i])] =
                            OutputScore(i, variant_data[r]["UID"])

\* two plugins on a pool of two workers and a table of two variants: the
\* annotated data was returned
C25_Witness ==
    /\ pc = "returned"
    /\ ret.error = NoError
    /\ Len(plugins) = 2
    /\ cpu_count = 2
    /\ Len(variant_data) = 2
    /\ Len(ret.value.annotated_variant_data.rows) = 2

Finished(i) == tpc[i] \in {"returned", "raised", "terminated"}

\* C26: at every instant the number of plugins inside Plugin.run is at most
\* the pool size, which is cpu_count when given and the number of CPUs less
\* one when cpu_count is -1; on a pool of one worker a plugin starts only
\* after every plugin before it in the list has finished.
C26_AtMostPoolSizeRunning ==
    /\ [](/\ pc = "start" => \A i \in DOMAIN tpc : ~Running(i)
          /\ pc # "start" => Cardinality({i \in DOMAIN tpc : Running(i)}) <= cpu_count
          /\ (pc # "start" /\ cpu_count = 1) =>
                \A i, j \in DOMAIN tpc :
                    (i < j /\ (Running(j) \/ Finished(j))) => Finished(i))
    /\ [][pc = "start" =>
             cpu_count' = IF cpu_count = -1 THEN ncpus - 1 ELSE cpu_count]_vars

\* two plugins run at the same time on a pool of two workers
C26_Witness ==
    /\ cpu_count = 2
    /\ Len(plugins) = 2
    /\ Running(1) /\ Running(2)

\* C27: on a machine of n >= 1 CPUs the default cpu_count = -1 gives the pool
\* at least one worker (after line 174 cpu_count holds the pool size), so
\* that the pool is created and the dispatched tasks are executed.
C27_DefaultPoolHasWorker ==
    pc # "start" => (cpu_count >= 1 /\ ret.error.type # "ValueError")

(***************************************************************************)
(* DockerEntryPoint.run: the resources of one container invocation         *)
(***************************************************************************)
\* what the invocation meets: whether format_input can write the table in
\* the input format, whether the docker daemon answers, whether the image
\* can be run, the exit status of the command, and whether format_output can
\* read the output file
Environments ==
    [input_ok : BOOLEAN, daemon : BOOLEAN, image : BOOLEAN, exit_status : {0, 1},
     output_ok : BOOLEAN]

\* the bindings of the entry point: local paths
BindingLists == {<<>>, <<"data">>, <<"data", "db">>}

\* the invocation: its position, the two exchange files (whether they exist
\* on disk), the Mount objects and the container
Invocation(pc_, env, entry_point, in_file, out_file, mounts, container) ==
    [pc |-> pc_, env |-> env, entry_point |-> entry_point, in_file |-> in_file,
     out_file |-> out_file, mounts |-> mounts, container |-> container]

InitDocker ==
    /\ \E env \in Environments, bindings \in BindingLists :
          docker = Invocation("start", env,
                              DockerEntryPoint("img", "cmd", IOInfo, IOInfo, bindings),
                              FALSE, FALSE, {}, "none")
    /\ docker_ret = NoReturn
    /\ plugins = <<>> /\ variant_data = <<>>
    /\ cpu_count = 1 /\ ncpus = 1
    /\ with_flexible_plugins = FALSE
    /\ compat = Pending
    /\ tpc = Idle /\ traw = Idle /\ tres = Idle
    /\ pool = "none" /\ pc = "idle" /\ next_job = 1
    /\ plugin_results = <<>> /\ ret = NoReturn
    /\ MergeIdle /\ ScoreIdle /\ BuildIdle /\ PipeIdle

otherthandocker ==
    <<plugins, variant_data, cpu_count, ncpus, with_flexible_plugins, compat, tpc,
      traw, tres, pool, pc, next_job, plugin_results, ret, mergevars, scorevars,
      buildvars, pipevars>>

\* run ends with an exception: the local in_file goes out of scope, and the
\* NamedTemporaryFile of the input file, made with delete=True, removes its
\* file when it is closed; nothing else is undone
DockerRaise(type, kind) ==
    /\ docker' = [docker EXCEPT !.pc = "raised", !.in_file = FALSE]
    /\ docker_ret' = Raised(Error(type, kind, "", {}))

\* line 96, _create_files: the input file is made with delete=True, the
\* output file with delete=False
DockerCreateFiles ==
    /\ docker.pc = "start"
    /\ docker' = [docker EXCEPT !.pc = "format_input", !.in_file = TRUE,
                                !.out_file = TRUE]
    /\ UNCHANGED <<docker_ret, otherthandocker>>

\* line 97, format_input: the codec writes the table, or fails
DockerFormatInput ==
    /\ docker.pc = "format_input"
    /\ IF docker.env.input_ok
       THEN docker' = [docker EXCEPT !.pc = "mount"] /\ UNCHANGED docker_ret
       ELSE DockerRaise("Exception", "format_input")
    /\ UNCHANGED otherthandocker

\* line 98, _mount_everything: a Mount per binding and one for each file
DockerMountEverything ==
    /\ docker.pc = "mount"
    /\ docker' = [docker EXCEPT !.pc = "client",
                                !.mounts = Range(docker.entry_point.bindings)
                                               \cup {"in_file", "out_file"}]
    /\ UNCHANGED <<docker_ret, otherthandocker>>

\* lines 99-100, docker.from_env() and client.ping()
DockerPing ==
    /\ docker.pc = "client"
    /\ IF docker.env.daemon
       THEN docker' = [docker EXCEPT !.pc = "run"] /\ UNCHANGED docker_ret
       ELSE DockerRaise("DockerException", "ping")
    /\ UNCHANGED otherthandocker

\* line 101, client.containers.run(image, command, mounts=mounts,
\* privileged=True): the container is created with the mounts and started,
\* unless the image cannot be had
DockerContainerStart ==
    /\ docker.pc = "run"
    /\ IF docker.env.image
       THEN docker' = [docker EXCEPT !.pc = "wait", !.container = "running"]
            /\ UNCHANGED docker_ret
       ELSE DockerRaise("ImageNotFound", "run")
    /\ UNCHANGED otherthandocker

\* line 101 goes on: the command ends; run was called without remove=True, so
\* the container stays as an exited container; a status other than 0 raises
\* ContainerError
DockerContainerExit ==
    /\ docker.pc = "wait"
    /\ IF docker.env.exit_status = 0
       THEN docker' = [docker EXCEPT !.pc = "format_output", !.container = "exited"]
            /\ UNCHANGED docker_ret
       ELSE /\ docker' = [docker EXCEPT !.pc = "raised", !.container = "exited",
                                        !.in_file = FALSE]
            /\ docker_ret' = Raised(Error("ContainerError", "run", "", {}))
    /\ UNCHANGED otherthandocker

\* lines 102-103, format_output: the codec reads the output file, or fails
DockerFormatOutput ==
    /\ docker.pc = "format_output"
    /\ IF docker.env.output_ok
       THEN /\ docker' = [docker EXCEPT !.pc = "returned", !.in_file = FALSE]
            /\ docker_ret' = Returned(NoTable)
       ELSE DockerRaise("Exception", "format_output")
    /\ UNCHANGED otherthandocker

\* the process is terminated from outside while run is under way: no code of
\* run is executed any more
DockerTerminated ==
    /\ docker.pc \notin {"start", "returned", "raised", "terminated"}
    /\ docker' = [docker EXCEPT !.pc = "terminated"]
    /\ UNCHANGED <<docker_ret, otherthandocker>>

NextDocker ==
    \/ DockerCreateFiles
    \/ DockerFormatInput
    \/ DockerMountEverything
    \/ DockerPing
    \/ DockerContainerStart
    \/ DockerContainerExit
    \/ DockerFormatOutput
    \/ DockerTerminated

SpecDocker == InitDocker /\ [][NextDocker]_vars

\* C28: after DockerEntryPoint.run has returned, has raised or was terminated
\* from outside, none of the resources of the invocation exists any more:
\* neither exchange file, no container and with it no mount.
C28_ResourcesReleasedOnEveryExit ==
    docker.pc \in {"returned", "raised", "terminated"} =>
        /\ ~docker.in_file
        /\ ~docker.out_file
        /\ docker.container = "none"

(***************************************************************************)
(* The imputation policies: merge_annotaded_variant_and_evaluation_data    *)
(* with each policy, then Score.interpret() of every merged score          *)
(***************************************************************************)
\* the cutoffs of the plugins, in tenths: below 0, 0.5, and 1.0
ImputeCutoffs == {Scalar(-1), Scalar(5), Scalar(10)}

\* what the plugins gave: a score for every variant, or a null for the last
ImputeOutputs(table) == {Scored(table, "0.5"), LastNull(Scored(table, "0.5"))}

\* plugins of distinct names with their cutoffs and outputs, on a table with
\* its ground truth
InitImpute ==
    /\ variant_data \in PlainTables
    /\ \E n \in 1..MaxPlugins :
          \E cuts \in [1..n -> ImputeCutoffs], outs \in [1..n -> ImputeOutputs(variant_data)] :
             /\ plugins = [i \in 1..n |-> CutoffPlugin(PluginName(i), cuts[i])]
             /\ traw = outs
             /\ plugin_results =
                   [i \in 1..n |->
                       [plugin |-> CutoffPlugin(PluginName(i), cuts[i]),
                        scores |-> rename(outs[i], "SCORE",
                                          score_column_name(CutoffPlugin(PluginName(i),
                                                                         cuts[i])))]]
    /\ evaluation_data \in EvaluationTables(variant_data)
    /\ cpu_count = 1 /\ ncpus = 1
    /\ with_flexible_plugins = TRUE
    /\ compat = Pending
    /\ tpc = Idle /\ tres = Idle
    /\ pool = "none" /\ pc = "idle" /\ next_job = 1
    /\ ret = NoReturn
    /\ how = "inner"
    /\ annotated_variants = NoReturn /\ scores = NoReturn
    /\ how_to_handle_with_missing_values = "Deletion"
    /\ merge_ret = NoReturn
    /\ ScoreIdle /\ BuildIdle /\ RestIdle

\* every Score that the merge returned is interpreted with the cutoff of its
\* plugin, as the metrics and summaries do
InterpretMerged ==
    /\ merge_ret.error = NoError
    /\ called = ""
    /\ called' = "interpret"
    /\ call_ret' = Returned([i \in 1..Len(merge_ret.value.scores) |->
                               Score_interpret(numeric(merge_ret.value.scores[i]),
                                               NoCutoff)])
    /\ UNCHANGED <<plugins, variant_data, cpu_count, ncpus, with_flexible_plugins,
                   compat, tpc, traw, tres, pool, pc, next_job, plugin_results, ret,
                   mergevars, score, interpreted_classes, pathogenicity_class_map,
                   cutoff, warnings, buildvars, restvars>>

NextImpute ==
    \/ FromResults
    \/ MergeWithEvaluation
    \/ InterpretMerged

SpecImpute == InitImpute /\ [][NextImpute]_vars

\* the score of plugin i is missing for the variant of row k
MissingScore(i, k) ==
    annotated_variants.value.annotated_variant_data.rows[k][score_column_name(plugins[i])]
        = "NaN"

\* C29: under Imputation-Benign a variant whose score is missing for a plugin
\* is interpreted for that plugin as class 0, under Imputation-Pathogenic as
\* class 1, whatever the cutoff of the plugin.
C29_ImputedClassFollowsPolicy ==
    (/\ called = "interpret"
     /\ how_to_handle_with_missing_values \in {"Imputation-Benign", "Imputation-Pathogenic"})
    => \A i \in 1..Len(plugins) :
          \A k \in 1..Len(annotated_variants.value.annotated_variant_data.rows) :
             MissingScore(i, k) =>
                /\ call_ret.value[i].error = NoError
                /\ call_ret.value[i].value.values[k] =
                      IF how_to_handle_with_missing_values = "Imputation-Benign"
                      THEN 0 ELSE 1

====
